---- MODULE Spec2Model ----
(***************************************************************************)
(* Session lifecycle of Python-User-Session-Management: the sessions table *)
(* (session/session_store.py), the SessionManager on top of it             *)
(* (session/session_manager.py), the Flask before_request hook             *)
(* (session/session_middleware.py), the activity log                       *)
(* (tracking/activity_tracker.py), the preferences and consent tables and  *)
(* the routes of the Flask application (api/app.py).                       *)
(*                                                                         *)
(* Time is the value of datetime.now().timestamp(), scaled to integer      *)
(* ticks.  A handler that reads the clock more than once may see it        *)
(* advance between two reads.                                              *)
(*                                                                         *)
(* Spec      every handler runs to completion as one action (one request   *)
(*           thread at a time).                                            *)
(* ConcSpec  two request threads run get_session, set_session_data and     *)
(*           destroy_session statement by statement (each clock read and   *)
(*           each SQL statement is one step), as under a threaded server.  *)
(* DataSpec  set_session_data and get_session_data on one session, over    *)
(*           Python values of every JSON type and values JSON alters.      *)
(* ApiSpec   the routes of api/app.py, each request one action, for the    *)
(*           browser of the first user to log in.                          *)
(* AuthSpec  login, logout and two protected routes, any number of logins. *)
(* TrackSpec the activity log under the session operations, the retention  *)
(*           sweep and the erase of a user.                                *)
(* CountSpec track_event for every user, event type and session id.        *)
(* GdprSpec  the erase of a user, completed or dropped after some of its   *)
(*           DELETEs, next to sessions, events, preferences and consent.   *)
(* RetentionSpec  apply_retention_policy over sessions and events.         *)
(* PrefSpec  PreferenceManager and PrivacyManager on one defaults dict.    *)
(* ExportSpec  export_user_data next to the writers of the four tables.    *)
(* ConsentSpec  record_consent, get_consent and the erase on the consent   *)
(*           table, consent types being names or None.                     *)
(* JourneySpec  get_user_journey over stored activities tables of up to    *)
(*           twice the LIMIT of the query.                                 *)
(* UserSessionsSpec  destroy_user_sessions next to login and validation.   *)
(* StatsSpec  get_session_stats next to login, logout and the clock.       *)
(* FunnelSpec  get_conversion_funnel over stored activities tables of up   *)
(*           to MaxUsers users per step.                                   *)
(* ValiditySpec  every operation that reaches the sessions table, the      *)
(*           clock moving inside the calls that read it.                   *)
(* BypassSpec  set_session_data and get_session_data on sessions that      *)
(*           expire while they are stored.                                 *)
(* StaleSpec  get_session and GET /api/session under a moving clock.       *)
(* IsolationSpec  the protected routes with both users logged in.          *)
(* CookieSpec  requests with a session_id cookie, an X-Session-ID header,  *)
(*           both or neither.                                              *)
(* ExpirySpec  get_session and cleanup_expired_sessions under a moving     *)
(*           clock.                                                        *)
(***************************************************************************)
EXTENDS Integers, Sequences, FiniteSets, TLC

----------------------------------------------------------------------------
(* Bounds of the model *)

MaxTime == 1
MaxTimeout == 1
MaxEvents == 2
MaxRows == 2

\* users of the activities tables of the conversion funnel
MaxUsers == 10

\* LIMIT 100 of the journey query without a session filter
JourneyLimit == 100

----------------------------------------------------------------------------
(* Value universes *)

\* tokens that secrets.token_urlsafe(32) returns, in the order it returns
\* them: a token is never returned twice
AllTokens == <<"s1", "s2">>
SessionIds == {AllTokens[i] : i \in DOMAIN AllTokens}
token_urlsafe(used) == AllTokens[Cardinality(used) + 1]

\* user ids of users_db
UserIds == {1, 2}

\* optional values: None is the empty sequence, a present value x is <<x>>
None == <<>>
Some(x) == <<x>>

NoneStr == "None"
IpAddrs == {"192.168.1.100"}
UserAgents == {NoneStr}

\* keys and Python values handed to set_session_data
Keys == {"k1", "k2"}
PyValues == {"py:(1,)", "py:[1]"}

\* more Python values that json.dumps accepts: a string, a float, a bool, a
\* nested mapping with a sequence in it, a mapping with an int key
DataValues ==
    PyValues \cup {"py:'a'", "py:1.5", "py:True", "py:{'a': [1]}", "py:{1: 'a'}"}

\* the values built only from JSON's own types: str, numbers, bool, list and
\* str-keyed dict
JsonTypeValues == {"py:[1]", "py:'a'", "py:1.5", "py:True", "py:{'a': [1]}"}

\* json.dumps of one value: a tuple and a list both become a JSON array, the
\* key of a mapping becomes a string
json_dumps_value(v) ==
    CASE v = "py:(1,)" -> "json:[1]"
      [] v = "py:[1]" -> "json:[1]"
      [] v = "py:'a'" -> "json:\"a\""
      [] v = "py:1.5" -> "json:1.5"
      [] v = "py:True" -> "json:true"
      [] v = "py:False" -> "json:false"
      [] v = "py:'light'" -> "json:\"light\""
      [] v = "py:'dark'" -> "json:\"dark\""
      [] v = "py:'en'" -> "json:\"en\""
      [] v = "py:{'a': [1]}" -> "json:{\"a\": [1]}"
      [] v = "py:{1: 'a'}" -> "json:{\"1\": \"a\"}"
      [] v = "py:{'1': 'a'}" -> "json:{\"1\": \"a\"}"

\* variant: a JSON array decoded as a tuple
json_loads_value_tuple(j) ==
    CASE j = "json:[1]" -> "py:(1,)"
      [] j = "json:\"a\"" -> "py:'a'"
      [] j = "json:1.5" -> "py:1.5"
      [] j = "json:true" -> "py:True"
      [] j = "json:false" -> "py:False"
      [] j = "json:\"light\"" -> "py:'light'"
      [] j = "json:\"dark\"" -> "py:'dark'"
      [] j = "json:\"en\"" -> "py:'en'"
      [] j = "json:{\"a\": [1]}" -> "py:{'a': [1]}"
      [] j = "json:{\"1\": \"a\"}" -> "py:{'1': 'a'}"

\* json.loads of one value: a JSON array becomes a list
json_loads_value(j) ==
    CASE j = "json:[1]" -> "py:[1]"
      [] j = "json:\"a\"" -> "py:'a'"
      [] j = "json:1.5" -> "py:1.5"
      [] j = "json:true" -> "py:True"
      [] j = "json:false" -> "py:False"
      [] j = "json:\"light\"" -> "py:'light'"
      [] j = "json:\"dark\"" -> "py:'dark'"
      [] j = "json:\"en\"" -> "py:'en'"
      [] j = "json:{\"a\": [1]}" -> "py:{'a': [1]}"
      [] j = "json:{\"1\": \"a\"}" -> "py:{'1': 'a'}"

\* json.dumps / json.loads of a str-keyed dict
json_dumps(d) == [k \in DOMAIN d |-> json_dumps_value(d[k])]
json_loads(j) == [k \in DOMAIN j |-> json_loads_value(j[k])]

\* the empty dict {} and its JSON text '{}'
EmptyDict == [k \in {} |-> "py:[1]"]
EmptyJson == [k \in {} |-> "json:[1]"]

\* d[key] = value on a dict
dict_set(d, key, value) ==
    [k \in DOMAIN d \cup {key} |-> IF k = key THEN value ELSE d[k]]

\* a value of a preferences mapping: a scalar, or a nested str-keyed dict
\* of scalars
Leaf(v) == [leaf |-> v, sub |-> EmptyDict]
Dict(m) == [leaf |-> "dict", sub |-> m]

\* PreferenceManager.defaults as __init__ builds it
DefaultPreferences ==
    [theme |-> Leaf("py:'light'"),
     language |-> Leaf("py:'en'"),
     notifications |-> Dict([email |-> "py:True", push |-> "py:False",
                             sms |-> "py:False"]),
     privacy |-> Dict([profile_public |-> "py:False", show_activity |-> "py:True",
                       allow_analytics |-> "py:True"])]

\* the empty preferences mapping {}
EmptyPreferences == [k \in {} |-> Leaf("py:True")]

\* json.dumps / json.loads of a preferences mapping
json_dumps_item(x) ==
    IF x.leaf = "dict"
    THEN [leaf |-> "dict", sub |-> json_dumps(x.sub)]
    ELSE [leaf |-> json_dumps_value(x.leaf), sub |-> EmptyJson]
json_loads_item(x) ==
    IF x.leaf = "dict"
    THEN [leaf |-> "dict", sub |-> json_loads(x.sub)]
    ELSE [leaf |-> json_loads_value(x.leaf), sub |-> EmptyDict]
json_dumps_preferences(m) == [k \in DOMAIN m |-> json_dumps_item(m[k])]
json_loads_preferences(j) == [k \in DOMAIN j |-> json_loads_item(j[k])]

----------------------------------------------------------------------------
(* State *)

VARIABLES
    sessions,          \* the sessions table: session_id -> row
    session_timeout,   \* SessionManager.session_timeout
    now,               \* the wall clock
    issued,            \* tokens already returned by secrets.token_urlsafe
    last,              \* the latest call: its arguments, locals and result
    threads,           \* ConcSpec: each request thread's position and locals
    activities,        \* the activities table, in insertion order
    activity_seq,      \* sqlite_sequence of activities: the largest id given
    preferences,       \* the preferences table: user_id -> preferences text
    consent,           \* the consent table, in rowid order
    defaults           \* PreferenceManager.defaults

\* the tables that the session store and manager never touch
other_tables == <<activities, activity_seq, preferences, consent, defaults>>

vars == <<sessions, session_timeout, now, issued, last, threads,
          activities, activity_seq, preferences, consent, defaults>>

\* op       the handler that ran
\* sid      its session_id argument (or the id the middleware resolved)
\* session  what store.get_session returned to it (None when it did not ask)
\* ret      the session it returned (None for not-found)
\* t        the clock value of its expiry check (of expires_at for create)
\* ok       it returned normally; for validate_session, the boolean returned
\* n        an integer result: rows deleted, HTTP status, user id created for
\* val      a value result: of get_session_data; session_timeout for
\*          get_session_stats; the X-Session-ID header of a request with
\*          cookie and header
Call(op, sid, session, ret, t, ok, n, val) ==
    [op |-> op, sid |-> sid, session |-> session, ret |-> ret,
     t |-> t, ok |-> ok, n |-> n, val |-> val]

NoCall == Call("init", "", None, None, 0, TRUE, 0, NoneStr)

\* pc            the statement the thread executes next ("idle": between calls)
\* sid           the session_id argument of its call
\* session       its local `session` (or `session_data` written into it)
\* current_time  its local `current_time` in update_session_activity
Thread(pc, sid, session, current_time) ==
    [pc |-> pc, sid |-> sid, session |-> session, current_time |-> current_time]

Idle == Thread("idle", "", None, 0)

ThreadIds == {1, 2}

----------------------------------------------------------------------------
(* SessionStore: one SQL statement each *)

\* variant: expires_at and current_time swapped in the VALUES tuple
store_create_session_swapped(S, session_id, user_id, expires_at, ip_address, user_agent, current_time) ==
    [s \in DOMAIN S \cup {session_id} |->
        IF s = session_id
        THEN [user_id |-> user_id, created_at |-> expires_at,
              expires_at |-> current_time, last_activity |-> current_time,
              data |-> EmptyJson, ip_address |-> ip_address,
              user_agent |-> user_agent]
        ELSE S[s]]

\* INSERT INTO sessions ... VALUES (session_id, user_id, current_time,
\*                                  expires_at, current_time, '{}', ip, agent)
store_create_session(S, session_id, user_id, expires_at, ip_address, user_agent, current_time) ==
    [s \in DOMAIN S \cup {session_id} |->
        IF s = session_id
        THEN [user_id |-> user_id, created_at |-> current_time,
              expires_at |-> expires_at, last_activity |-> current_time,
              data |-> EmptyJson, ip_address |-> ip_address,
              user_agent |-> user_agent]
        ELSE S[s]]

\* SELECT * FROM sessions WHERE session_id = ? ; the row as a dict, or None
store_get_session(S, session_id) ==
    IF session_id \in DOMAIN S
    THEN Some([session_id |-> session_id,
               user_id |-> S[session_id].user_id,
               created_at |-> S[session_id].created_at,
               expires_at |-> S[session_id].expires_at,
               last_activity |-> S[session_id].last_activity,
               data |-> json_loads(S[session_id].data),
               ip_address |-> S[session_id].ip_address,
               user_agent |-> S[session_id].user_agent])
    ELSE None

\* variant: the refresh also slides the expiry forward
update_session_activity_sliding(S, session_id, current_time) ==
    [s \in DOMAIN S |->
        IF s = session_id
        THEN [S[s] EXCEPT !.last_activity = current_time,
                          !.expires_at = current_time + session_timeout]
        ELSE S[s]]

\* UPDATE sessions SET last_activity = ? WHERE session_id = ?
update_session_activity(S, session_id, current_time) ==
    [s \in DOMAIN S |->
        IF s = session_id
        THEN [S[s] EXCEPT !.last_activity = current_time]
        ELSE S[s]]

\* variant: the new mapping is merged into the stored one, key by key
store_set_session_data_merge(S, session_id, data) ==
    [s \in DOMAIN S |->
        IF s = session_id
        THEN [S[s] EXCEPT !.data =
                 [k \in DOMAIN S[s].data \cup DOMAIN data |->
                     IF k \in DOMAIN data THEN json_dumps_value(data[k])
                     ELSE S[s].data[k]]]
        ELSE S[s]]

\* variant: INSERT OR REPLACE INTO sessions (session_id, data), which puts a
\* row back when there is none
store_set_session_data_replace(S, session_id, data) ==
    [s \in DOMAIN S \cup {session_id} |->
        IF s = session_id
        THEN [user_id |-> 0, created_at |-> 0, expires_at |-> 0,
              last_activity |-> 0, data |-> json_dumps(data),
              ip_address |-> NoneStr, user_agent |-> NoneStr]
        ELSE S[s]]

\* UPDATE sessions SET data = ? WHERE session_id = ?
store_set_session_data(S, session_id, data) ==
    [s \in DOMAIN S |->
        IF s = session_id
        THEN [S[s] EXCEPT !.data = json_dumps(data)]
        ELSE S[s]]

\* variant: the WHERE clause inverted (session_id != ?)
delete_session_inverted(S, session_id) ==
    [s \in DOMAIN S \cap {session_id} |-> S[s]]

\* DELETE FROM sessions WHERE session_id = ?
delete_session(S, session_id) ==
    [s \in DOMAIN S \ {session_id} |-> S[s]]

\* variant: the WHERE clause left out
delete_user_sessions_everyone(S, user_id) ==
    [s \in {} |-> S[s]]

\* DELETE FROM sessions WHERE user_id = ?
delete_user_sessions(S, user_id) ==
    [s \in {x \in DOMAIN S : S[x].user_id # user_id} |-> S[s]]

\* variant: the comparison not strict (expires_at <= ?)
delete_expired_sessions_nonstrict(S, current_time) ==
    [s \in {x \in DOMAIN S : ~(S[x].expires_at <= current_time)} |-> S[s]]

\* DELETE FROM sessions WHERE expires_at < ?
delete_expired_sessions(S, current_time) ==
    [s \in {x \in DOMAIN S : ~(S[x].expires_at < current_time)} |-> S[s]]

\* variant: the comparison not strict (expires_at >= ?)
get_active_sessions_count_nonstrict(S, current_time) ==
    Cardinality({s \in DOMAIN S : S[s].expires_at >= current_time})

\* SELECT COUNT(*) FROM sessions WHERE expires_at > ?
get_active_sessions_count(S, current_time) ==
    Cardinality({s \in DOMAIN S : S[s].expires_at > current_time})

----------------------------------------------------------------------------
(* SessionManager *)

\* variant: one tick of grace after expires_at
is_expired_grace(session, current_time) ==
    current_time > session.expires_at + 1

\* variant: the comparison not strict
is_expired_nonstrict(session, current_time) ==
    current_time >= session.expires_at

\* current_time > session['expires_at']
is_expired(session, current_time) ==
    current_time > session.expires_at

\* the state after construction, the clock reading t0
InitAt(t0) ==
    /\ sessions = [s \in {} |-> 0]
    /\ session_timeout \in 0..MaxTimeout
    /\ now = t0
    /\ issued = {}
    /\ last = NoCall
    /\ threads = [i \in ThreadIds |-> Idle]
    /\ activities = <<>>
    /\ activity_seq = 0
    /\ preferences = [u \in {} |-> EmptyPreferences]
    /\ consent = <<>>
    /\ defaults = DefaultPreferences

Init == InitAt(0)

\* time passes between two calls
Tick ==
    /\ now < MaxTime
    /\ now' = now + 1
    /\ last' = Call("tick", "", None, None, 0, TRUE, 0, NoneStr)
    /\ UNCHANGED <<sessions, session_timeout, issued, threads, other_tables>>

\* SessionManager.create_session: the token is fresh; the manager reads the
\* clock for expires_at (t1), the store reads it again for created_at (t2)
create_session(user_id, ip_address, user_agent) ==
    \E t1 \in now..MaxTime :
    \E t2 \in t1..MaxTime :
        LET session_id == token_urlsafe(issued) IN
        /\ Cardinality(issued) < Len(AllTokens)
        /\ sessions' = store_create_session(sessions, session_id, user_id,
                           t1 + session_timeout, ip_address, user_agent, t2)
        /\ issued' = issued \cup {session_id}
        /\ now' = t2
        /\ last' = Call("create", session_id, None, None, t1, TRUE, user_id, NoneStr)
        /\ UNCHANGED <<session_timeout, threads, other_tables>>

\* variant: the activity refresh left out
get_session_outcomes_norefresh(S, session_id, t0) ==
    LET session == store_get_session(S, session_id) IN
    IF session = None
    THEN {[store |-> S, ret |-> None, session |-> None, t |-> t0, clock |-> t0]}
    ELSE {[store |-> IF is_expired(session[1], t1)
                     THEN delete_session(S, session_id) ELSE S,
           ret |-> IF is_expired(session[1], t1) THEN None ELSE session,
           session |-> session, t |-> t1, clock |-> t1] : t1 \in t0..MaxTime}

\* variant: every lookup also sweeps the expired sessions
get_session_outcomes_sweeping(S, session_id, t0) ==
    LET session == store_get_session(S, session_id) IN
    IF session = None
    THEN {[store |-> delete_expired_sessions(S, t0), ret |-> None,
           session |-> None, t |-> t0, clock |-> t0]}
    ELSE {[store |-> delete_expired_sessions(delete_session(S, session_id), t1),
           ret |-> None, session |-> session, t |-> t1, clock |-> t1] :
             t1 \in {x \in t0..MaxTime : is_expired(session[1], x)}}
         \cup
         {[store |-> delete_expired_sessions(
                        update_session_activity(S, session_id, tt[2]), tt[2]),
           ret |-> session, session |-> session, t |-> tt[1], clock |-> tt[2]] :
             tt \in {y \in (t0..MaxTime) \X (t0..MaxTime) :
                        y[1] <= y[2] /\ ~is_expired(session[1], y[1])}}

\* variant: the row is read again after the refresh and that is returned
get_session_outcomes_reread(S, session_id, t0) ==
    LET session == store_get_session(S, session_id) IN
    IF session = None
    THEN {[store |-> S, ret |-> None, session |-> None, t |-> t0, clock |-> t0]}
    ELSE {[store |-> delete_session(S, session_id), ret |-> None,
           session |-> session, t |-> t1, clock |-> t1] :
             t1 \in {x \in t0..MaxTime : is_expired(session[1], x)}}
         \cup
         {[store |-> update_session_activity(S, session_id, tt[2]),
           ret |-> store_get_session(
                       update_session_activity(S, session_id, tt[2]), session_id),
           session |-> session, t |-> tt[1], clock |-> tt[2]] :
             tt \in {y \in (t0..MaxTime) \X (t0..MaxTime) :
                        y[1] <= y[2] /\ ~is_expired(session[1], y[1])}}

\* SessionManager.get_session on table S when the clock shows t0 at entry:
\* every way the call can go, one per pair of clock readings t1 (is_expired)
\* and t2 (update_session_activity).  store: the table afterwards; ret: the
\* value returned; session: the row fetched; t: the clock value compared
\* with expires_at; clock: the clock at return
get_session_outcomes(S, session_id, t0) ==
    LET session == store_get_session(S, session_id) IN
    IF session = None
    THEN {[store |-> S, ret |-> None, session |-> None, t |-> t0, clock |-> t0]}
    ELSE {[store |-> delete_session(S, session_id), ret |-> None,
           session |-> session, t |-> t1, clock |-> t1] :
             t1 \in {x \in t0..MaxTime : is_expired(session[1], x)}}
         \cup
         {[store |-> update_session_activity(S, session_id, tt[2]), ret |-> session,
           session |-> session, t |-> tt[1], clock |-> tt[2]] :
             tt \in {y \in (t0..MaxTime) \X (t0..MaxTime) :
                        y[1] <= y[2] /\ ~is_expired(session[1], y[1])}}

\* SessionManager.get_session
get_session(session_id) ==
    \E e \in get_session_outcomes(sessions, session_id, now) :
        /\ sessions' = e.store
        /\ now' = e.clock
        /\ last' = Call("get", session_id, e.session, e.ret, e.t, TRUE, 0, NoneStr)
        /\ UNCHANGED <<session_timeout, issued, threads, other_tables>>

\* SessionManager.validate_session: get_session(session_id) is not None
validate_session(session_id) ==
    \E e \in get_session_outcomes(sessions, session_id, now) :
        /\ sessions' = e.store
        /\ now' = e.clock
        /\ last' = Call("validate", session_id, e.session, None, e.t,
                        e.ret # None, 0, NoneStr)
        /\ UNCHANGED <<session_timeout, issued, threads, other_tables>>

\* variant: the delete cascades to the activities of the session
destroy_session_cascade(session_id) ==
    /\ sessions' = delete_session(sessions, session_id)
    /\ activities' = SelectSeq(activities, LAMBDA r : r.session_id # session_id)
    /\ last' = Call("destroy", session_id, None, None, 0, TRUE,
                    IF session_id \in DOMAIN sessions THEN 1 ELSE 0, NoneStr)
    /\ UNCHANGED <<session_timeout, now, issued, threads, activity_seq,
                   preferences, consent, defaults>>

\* SessionManager.destroy_session
destroy_session(session_id) ==
    /\ sessions' = delete_session(sessions, session_id)
    /\ last' = Call("destroy", session_id, None, None, 0, TRUE,
                    IF session_id \in DOMAIN sessions THEN 1 ELSE 0, NoneStr)
    /\ UNCHANGED <<session_timeout, now, issued, threads, other_tables>>

\* SessionManager.destroy_user_sessions
destroy_user_sessions(user_id) ==
    /\ sessions' = delete_user_sessions(sessions, user_id)
    /\ last' = Call("destroy_user", "", None, None, 0, TRUE, user_id, NoneStr)
    /\ UNCHANGED <<session_timeout, now, issued, threads, other_tables>>

\* variant: the write is an upsert that inserts a row for an unknown id
set_session_data_upsert(session_id, key, value) ==
    LET session == store_get_session(sessions, session_id) IN
    /\ sessions' = IF session # None
                   THEN store_set_session_data(sessions, session_id,
                            dict_set(session[1].data, key, value))
                   ELSE store_set_session_data(
                            store_create_session(sessions, session_id, 1, now,
                                                 NoneStr, NoneStr, now),
                            session_id, dict_set(EmptyDict, key, value))
    /\ last' = Call("set_data", session_id, session, None, 0, TRUE, 0, NoneStr)
    /\ UNCHANGED <<session_timeout, now, issued, threads, other_tables>>

\* the sessions table after SessionManager.set_session_data: fetch the row,
\* set the key in its decoded data, write the whole mapping back; nothing
\* when there is no row
set_session_data_store(S, session_id, key, value) ==
    LET session == store_get_session(S, session_id) IN
    IF session # None
    THEN store_set_session_data(S, session_id,
                                dict_set(session[1].data, key, value))
    ELSE S

\* variant: the row is fetched with get_session, which checks the expiry and
\* refreshes last_activity
set_session_data_checked(session_id, key, value) ==
    \E e \in get_session_outcomes(sessions, session_id, now) :
        /\ sessions' = IF e.ret # None
                       THEN store_set_session_data(e.store, session_id,
                                dict_set(e.ret[1].data, key, value))
                       ELSE e.store
        /\ now' = e.clock
        /\ last' = Call("set_data", session_id, e.session, None, 0, TRUE, 0, NoneStr)
        /\ UNCHANGED <<session_timeout, issued, threads, other_tables>>

\* SessionManager.set_session_data
set_session_data(session_id, key, value) ==
    LET session == store_get_session(sessions, session_id) IN
    /\ sessions' = set_session_data_store(sessions, session_id, key, value)
    /\ last' = Call("set_data", session_id, session, None, 0, TRUE, 0, NoneStr)
    /\ UNCHANGED <<session_timeout, now, issued, threads, other_tables>>

\* session['data'].get(key, default), or default when there is no row
get_session_data_value(S, session_id, key, default) ==
    LET session == store_get_session(S, session_id) IN
    IF session # None /\ key \in DOMAIN session[1].data
    THEN session[1].data[key]
    ELSE default

\* SessionManager.get_session_data
get_session_data(session_id, key, default) ==
    /\ last' = Call("get_data", session_id, store_get_session(sessions, session_id),
                    None, 0, TRUE, 0,
                    get_session_data_value(sessions, session_id, key, default))
    /\ UNCHANGED <<sessions, session_timeout, now, issued, threads, other_tables>>

\* SessionManager.cleanup_expired_sessions: returns cursor.rowcount
cleanup_expired_sessions ==
    \E t1 \in now..MaxTime :
        /\ sessions' = delete_expired_sessions(sessions, t1)
        /\ now' = t1
        /\ last' = Call("sweep", "", None, None, t1, TRUE,
                        Cardinality(DOMAIN sessions)
                          - Cardinality(DOMAIN delete_expired_sessions(sessions, t1)),
                        NoneStr)
        /\ UNCHANGED <<session_timeout, issued, threads, other_tables>>

\* SessionManager.get_session_stats: the store reads the clock and counts;
\* the result is {'active_sessions': n, 'session_timeout': val}
get_session_stats ==
    \E current_time \in now..MaxTime :
        /\ now' = current_time
        /\ last' = Call("stats", "", None, None, current_time, TRUE,
                        get_active_sessions_count(sessions, current_time),
                        session_timeout)
        /\ UNCHANGED <<sessions, session_timeout, issued, threads, other_tables>>

----------------------------------------------------------------------------
(* SessionMiddleware and a protected route *)

\* a cookie or header of a request: None (absent) or Some(text)
HeaderValues == {None, Some("")} \cup {Some(s) : s \in SessionIds}

\* variant: the header read first, the cookie as the fallback
resolve_session_id_header_first(cookie, header) ==
    IF header # None /\ header[1] # "" THEN header ELSE cookie

\* request.cookies.get('session_id') or request.headers.get('X-Session-ID')
resolve_session_id(cookie, header) ==
    IF cookie # None /\ cookie[1] # "" THEN cookie ELSE header

\* what the requests resolve to, over every cookie and header
ResolvedSessionIds ==
    {resolve_session_id(c, h) : c \in HeaderValues, h \in HeaderValues}

\* GET /api/session for a request whose cookie and header resolve to
\* session_id: before_request_handler looks a non-empty id up with
\* get_session; require_session answers 401 when g.session is None, else
\* the route returns g.session
request_session_info(session_id) ==
    IF session_id # None /\ session_id[1] # ""
    THEN \E e \in get_session_outcomes(sessions, session_id[1], now) :
            /\ sessions' = e.store
            /\ now' = e.clock
            /\ last' = Call("request", session_id[1], e.session, e.ret, e.t, TRUE,
                            IF e.ret # None THEN 200 ELSE 401, NoneStr)
            /\ UNCHANGED <<session_timeout, issued, threads, other_tables>>
    ELSE /\ last' = Call("request", "", None, None, now, TRUE, 401, NoneStr)
         /\ UNCHANGED <<sessions, session_timeout, now, issued, threads, other_tables>>

\* the text of a cookie or header, "None" for an absent one
header_text(h) == IF h = None THEN NoneStr ELSE h[1]

\* GET /api/session for a request with the given session_id cookie and
\* X-Session-ID header: before_request_handler takes the cookie, or the
\* header if the cookie is absent or empty, and looks that one id up.
\* last.val keeps the text of the header the request carried
request_with_cookie_and_header(cookie, header) ==
    LET session_id == resolve_session_id(cookie, header) IN
    IF session_id # None /\ session_id[1] # ""
    THEN \E e \in get_session_outcomes(sessions, session_id[1], now) :
            /\ sessions' = e.store
            /\ now' = e.clock
            /\ last' = Call("request", session_id[1], e.session, e.ret, e.t, TRUE,
                            IF e.ret # None THEN 200 ELSE 401, header_text(header))
            /\ UNCHANGED <<session_timeout, issued, threads, other_tables>>
    ELSE /\ last' = Call("request", "", None, None, now, TRUE, 401,
                         header_text(header))
         /\ UNCHANGED <<sessions, session_timeout, now, issued, threads, other_tables>>

----------------------------------------------------------------------------

Next ==
    \/ Tick
    \/ \E u \in UserIds, ip \in IpAddrs, ua \in UserAgents : create_session(u, ip, ua)
    \/ \E s \in SessionIds : get_session(s)
    \/ \E s \in SessionIds : validate_session(s)
    \/ \E s \in SessionIds : destroy_session(s)
    \/ \E u \in UserIds : destroy_user_sessions(u)
    \/ \E s \in SessionIds, k \in Keys, v \in PyValues : set_session_data(s, k, v)
    \/ \E s \in SessionIds, k \in Keys : get_session_data(s, k, NoneStr)
    \/ cleanup_expired_sessions
    \/ \E session_id \in ResolvedSessionIds : request_session_info(session_id)

Spec == Init /\ [][Next]_vars

----------------------------------------------------------------------------
(* Request threads: SessionManager calls run statement by statement.  A    *)
(* step is one SQL statement (its own connection and commit) or one clock  *)
(* read; the steps of different threads interleave.                        *)

Set(i, th) ==
    /\ threads' = [threads EXCEPT ![i] = th]
    /\ UNCHANGED <<session_timeout, issued, last, other_tables>>

\* get_session, line 69: session = self.store.get_session(session_id);
\* not session: return None
get_select(i, session_id) ==
    LET session == store_get_session(sessions, session_id) IN
    /\ threads[i].pc = "idle"
    /\ Set(i, IF session = None THEN Idle
              ELSE Thread("get_check", session_id, session, 0))
    /\ UNCHANGED <<sessions, now>>

\* get_session, line 75: if self.is_expired(session)
get_check(i) ==
    /\ threads[i].pc = "get_check"
    /\ Set(i, [threads[i] EXCEPT !.pc =
                  IF is_expired(threads[i].session[1], now)
                  THEN "get_destroy" ELSE "get_clock"])
    /\ UNCHANGED <<sessions, now>>

\* get_session, line 76: self.destroy_session(session_id); return None
get_destroy(i) ==
    /\ threads[i].pc = "get_destroy"
    /\ sessions' = delete_session(sessions, threads[i].sid)
    /\ Set(i, Idle)
    /\ UNCHANGED now

\* update_session_activity, line 124: current_time = datetime.now().timestamp()
get_clock(i) ==
    /\ threads[i].pc = "get_clock"
    /\ Set(i, [threads[i] EXCEPT !.pc = "get_update", !.current_time = now])
    /\ UNCHANGED <<sessions, now>>

\* update_session_activity, line 126: the UPDATE; get_session returns session
get_update(i) ==
    /\ threads[i].pc = "get_update"
    /\ sessions' = update_session_activity(sessions, threads[i].sid,
                                           threads[i].current_time)
    /\ Set(i, Idle)
    /\ UNCHANGED now

\* destroy_session: one DELETE
thread_destroy(i, session_id) ==
    /\ threads[i].pc = "idle"
    /\ sessions' = delete_session(sessions, session_id)
    /\ UNCHANGED <<session_timeout, now, issued, last, threads, other_tables>>

\* set_session_data, line 139: session = self.store.get_session(session_id);
\* lines 141-143: if session: session_data[key] = value
set_select(i, session_id, key, value) ==
    LET session == store_get_session(sessions, session_id) IN
    /\ threads[i].pc = "idle"
    /\ Set(i, IF session = None THEN Idle
              ELSE Thread("set_update", session_id,
                          Some([session[1] EXCEPT !.data = dict_set(@, key, value)]), 0))
    /\ UNCHANGED <<sessions, now>>

\* set_session_data, line 144: self.store.set_session_data(session_id, session_data);
\* the call returns (last.session: the row as it was just before the UPDATE)
set_update(i) ==
    /\ threads[i].pc = "set_update"
    /\ sessions' = store_set_session_data(sessions, threads[i].sid,
                                          threads[i].session[1].data)
    /\ threads' = [threads EXCEPT ![i] = Idle]
    /\ last' = Call("set_data", threads[i].sid,
                    store_get_session(sessions, threads[i].sid), None, 0, TRUE,
                    0, NoneStr)
    /\ UNCHANGED <<session_timeout, now, issued, other_tables>>

\* a complete create_session call, the only one of the run: the callers
\* work on a single session
thread_create(user_id, ip_address, user_agent) ==
    /\ issued = {}
    /\ create_session(user_id, ip_address, user_agent)

ConcNext ==
    \/ Tick
    \/ \E u \in UserIds, ip \in IpAddrs, ua \in UserAgents : thread_create(u, ip, ua)
    \/ \E i \in ThreadIds, s \in SessionIds : get_select(i, s)
    \/ \E i \in ThreadIds : get_check(i)
    \/ \E i \in ThreadIds : get_destroy(i)
    \/ \E i \in ThreadIds : get_clock(i)
    \/ \E i \in ThreadIds : get_update(i)
    \/ \E i \in ThreadIds, s \in SessionIds : thread_destroy(i, s)
    \/ \E i \in ThreadIds, s \in SessionIds, k \in Keys, v \in PyValues :
          set_select(i, s, k, v)
    \/ \E i \in ThreadIds : set_update(i)

ConcSpec == Init /\ [][ConcNext]_vars

----------------------------------------------------------------------------
(* Session data: set_session_data and get_session_data on one session,     *)
(* over the values of DataValues                                           *)

DataNext ==
    \/ \E u \in UserIds, ip \in IpAddrs, ua \in UserAgents : thread_create(u, ip, ua)
    \/ \E s \in SessionIds, k \in Keys, v \in DataValues : set_session_data(s, k, v)
    \/ \E s \in SessionIds, k \in Keys : get_session_data(s, k, NoneStr)
    \/ \E s \in SessionIds : destroy_session(s)

DataSpec == Init /\ [][DataNext]_vars

----------------------------------------------------------------------------
(* ActivityTracker, PreferenceManager and GDPRHandler: one SQL statement    *)
(* each                                                                    *)

\* variant: the session_id column is left NULL
insert_activity_anonymous(A, seq, user_id, session_id, event_type, event_data, ip_address, timestamp) ==
    Append(A, [id |-> seq + 1, user_id |-> user_id, session_id |-> NoneStr,
               event_type |-> event_type, event_data |-> event_data,
               ip_address |-> ip_address, user_agent |-> NoneStr,
               timestamp |-> timestamp])

\* variant: a foreign key on sessions, the row is dropped when session_id is
\* not a stored session
insert_activity_checked(A, seq, user_id, session_id, event_type, event_data, ip_address, timestamp) ==
    IF session_id \in DOMAIN sessions
    THEN Append(A, [id |-> seq + 1, user_id |-> user_id, session_id |-> session_id,
                    event_type |-> event_type, event_data |-> event_data,
                    ip_address |-> ip_address, user_agent |-> NoneStr,
                    timestamp |-> timestamp])
    ELSE A

\* INSERT INTO activities (...) VALUES (...): the id is the next value of the
\* AUTOINCREMENT sequence seq
insert_activity(A, seq, user_id, session_id, event_type, event_data, ip_address, timestamp) ==
    Append(A, [id |-> seq + 1, user_id |-> user_id, session_id |-> session_id,
               event_type |-> event_type, event_data |-> event_data,
               ip_address |-> ip_address, user_agent |-> NoneStr,
               timestamp |-> timestamp])

\* SELECT COUNT(*) FROM activities WHERE user_id = ? [AND event_type = ?]:
\* the filter on event_type is applied only when event_type is truthy
get_activity_count(A, user_id, event_type) ==
    IF event_type # NoneStr /\ event_type # ""
    THEN Cardinality({i \in DOMAIN A :
                        A[i].user_id = user_id /\ A[i].event_type = event_type})
    ELSE Cardinality({i \in DOMAIN A : A[i].user_id = user_id})

\* DELETE FROM activities WHERE timestamp < ?
delete_activities_before(A, cutoff_time) ==
    SelectSeq(A, LAMBDA r : ~(r.timestamp < cutoff_time))

\* DELETE FROM activities WHERE user_id = ?
delete_user_activities(A, user_id) ==
    SelectSeq(A, LAMBDA r : r.user_id # user_id)

\* DELETE FROM preferences WHERE user_id = ?
delete_user_preferences(P, user_id) ==
    [u \in DOMAIN P \ {user_id} |-> P[u]]

\* variant: the consent rows are kept
delete_user_consent_kept(C, user_id) == C

\* DELETE FROM consent WHERE user_id = ?
delete_user_consent(C, user_id) ==
    SelectSeq(C, LAMBDA r : r.user_id # user_id)

\* variant: the keys of the row that is replaced are kept when the new
\* text does not have them
save_preferences_merge(P, user_id, preferences_json) ==
    [u \in DOMAIN P \cup {user_id} |->
        IF u # user_id THEN P[u]
        ELSE IF u \notin DOMAIN P THEN preferences_json
        ELSE [k \in DOMAIN P[u] \cup DOMAIN preferences_json |->
                 IF k \in DOMAIN preferences_json THEN preferences_json[k]
                 ELSE P[u][k]]]

\* INSERT OR REPLACE INTO preferences (user_id, preferences, ...)
save_preferences(P, user_id, preferences_json) ==
    [u \in DOMAIN P \cup {user_id} |->
        IF u = user_id THEN preferences_json ELSE P[u]]

\* INSERT OR REPLACE INTO consent (user_id, consent_type, granted, timestamp)
\* under PRIMARY KEY (user_id, consent_type): the row with the same key is
\* replaced; a NULL consent_type equals no key, so the row is added
save_consent(C, user_id, consent_type, granted, timestamp) ==
    Append(SelectSeq(C, LAMBDA r : ~(/\ consent_type # NoneStr
                                     /\ r.user_id = user_id
                                     /\ r.consent_type = consent_type)),
           [user_id |-> user_id, consent_type |-> consent_type,
            granted |-> granted, timestamp |-> timestamp])

\* event types of EventLogger and of direct callers of track_event ("" is
\* accepted like any other string)
EventTypes == {"custom", ""}

\* ActivityTracker.track_event called directly: one clock read, one INSERT
track_event(user_id, event_type, session_id) ==
    \E timestamp \in now..MaxTime :
        /\ activity_seq < MaxEvents
        /\ activities' = insert_activity(activities, activity_seq, user_id,
                             session_id, event_type, NoneStr, NoneStr, timestamp)
        /\ activity_seq' = activity_seq + 1
        /\ now' = timestamp
        /\ last' = Call("track", session_id, None, None, timestamp, TRUE,
                        user_id, event_type)
        /\ UNCHANGED <<sessions, session_timeout, issued, threads,
                       preferences, consent, defaults>>

\* ActivityTracker.delete_old_activities(days): returns cursor.rowcount
delete_old_activities(days) ==
    \E t1 \in now..MaxTime :
        /\ activities' = delete_activities_before(activities, t1 - days)
        /\ now' = t1
        /\ last' = Call("delete_old_activities", "", None, None, t1 - days, TRUE,
                        Len(activities)
                          - Len(delete_activities_before(activities, t1 - days)),
                        NoneStr)
        /\ UNCHANGED <<sessions, session_timeout, issued, threads,
                       activity_seq, preferences, consent, defaults>>

\* cursor.rowcount of the four DELETEs of delete_user_data
delete_user_data_summary(S, A, P, C, user_id) ==
    [sessions_deleted |->
        Cardinality(DOMAIN S) - Cardinality(DOMAIN delete_user_sessions(S, user_id)),
     activities_deleted |-> Len(A) - Len(delete_user_activities(A, user_id)),
     preferences_deleted |->
        Cardinality(DOMAIN P) - Cardinality(DOMAIN delete_user_preferences(P, user_id)),
     consent_deleted |-> Len(C) - Len(delete_user_consent(C, user_id))]

\* GDPRHandler.delete_user_data(user_id): four DELETEs on one connection,
\* inside the transaction sqlite3 opens before the first of them, and one
\* commit; ret is the summary returned
gdpr_delete_user_data(user_id) ==
    /\ sessions' = delete_user_sessions(sessions, user_id)
    /\ activities' = delete_user_activities(activities, user_id)
    /\ preferences' = delete_user_preferences(preferences, user_id)
    /\ consent' = delete_user_consent(consent, user_id)
    /\ last' = Call("erase", "", None,
                    Some(delete_user_data_summary(sessions, activities,
                                                  preferences, consent, user_id)),
                    0, TRUE, user_id, NoneStr)
    /\ UNCHANGED <<session_timeout, now, issued, threads, activity_seq, defaults>>

\* DELETE FROM sessions WHERE created_at < ?
delete_sessions_created_before(S, cutoff_time) ==
    [s \in {x \in DOMAIN S : ~(S[x].created_at < cutoff_time)} |-> S[s]]

\* DataRetentionPolicy.apply_retention_policy() of a policy of
\* retention_days days (a day is one tick of the clock): delete_old_activities
\* reads the clock (t1) for its cutoff, then delete_old_sessions reads it
\* again (t2) for its own; ret is the summary returned
apply_retention_policy(retention_days) ==
    \E t1 \in now..MaxTime :
    \E t2 \in t1..MaxTime :
        LET A == delete_activities_before(activities, t1 - retention_days)
            S == delete_sessions_created_before(sessions, t2 - retention_days) IN
        /\ activities' = A
        /\ sessions' = S
        /\ now' = t2
        /\ last' = Call("retention", "", None,
                        Some([activities_deleted |-> Len(activities) - Len(A),
                              sessions_deleted |->
                                 Cardinality(DOMAIN sessions) - Cardinality(DOMAIN S)]),
                        t1, TRUE, retention_days, NoneStr)
        /\ UNCHANGED <<session_timeout, issued, threads, activity_seq,
                       preferences, consent, defaults>>

\* the four tables delete_user_data works on
Database(S, A, P, C) ==
    [sessions |-> S, activities |-> A, preferences |-> P, consent |-> C]

\* the tables as the connection of delete_user_data sees them when its k-th
\* DELETE raises: the DELETEs before it are done and not committed
deletes_before(db, user_id, k) ==
    [sessions |-> IF k > 1 THEN delete_user_sessions(db.sessions, user_id)
                  ELSE db.sessions,
     activities |-> IF k > 2 THEN delete_user_activities(db.activities, user_id)
                    ELSE db.activities,
     preferences |-> IF k > 3 THEN delete_user_preferences(db.preferences, user_id)
                     ELSE db.preferences,
     consent |-> db.consent]

\* variant: every DELETE is committed as it runs
connection_dropped_autocommit(committed, pending) == pending

\* the database after a connection with an open transaction is dropped
\* without conn.commit(): sqlite3 rolls the transaction back
connection_dropped(committed, pending) == committed

\* GDPRHandler.delete_user_data(user_id) when its k-th DELETE raises (a table
\* the handler does not create is missing, the disk is full): the exception
\* leaves the method before conn.commit()
gdpr_delete_user_data_failed(user_id, k) ==
    LET db == Database(sessions, activities, preferences, consent)
        after == connection_dropped(db, deletes_before(db, user_id, k)) IN
    /\ sessions' = after.sessions
    /\ activities' = after.activities
    /\ preferences' = after.preferences
    /\ consent' = after.consent
    /\ last' = Call("erase", "", None, None, k, FALSE, user_id, NoneStr)
    /\ UNCHANGED <<session_timeout, now, issued, threads, activity_seq, defaults>>

\* variant: the default preferences exported for a user without a row
export_data_defaults(S, A, P, C, user_id) ==
    [sessions |-> [s \in {x \in DOMAIN S : S[x].user_id = user_id} |-> S[s]],
     activities |-> SelectSeq(A, LAMBDA r : r.user_id = user_id),
     preferences |-> IF user_id \in DOMAIN P
                     THEN json_loads_preferences(P[user_id])
                     ELSE DefaultPreferences,
     consent |-> SelectSeq(C, LAMBDA r : r.user_id = user_id)]

\* what export_user_data(user_id) returns: the user's rows of sessions,
\* activities and consent, and json.loads of the user's preferences text,
\* {} when there is no row
export_data(S, A, P, C, user_id) ==
    [sessions |-> [s \in {x \in DOMAIN S : S[x].user_id = user_id} |-> S[s]],
     activities |-> SelectSeq(A, LAMBDA r : r.user_id = user_id),
     preferences |-> IF user_id \in DOMAIN P
                     THEN json_loads_preferences(P[user_id])
                     ELSE EmptyPreferences,
     consent |-> SelectSeq(C, LAMBDA r : r.user_id = user_id)]

\* GDPRHandler.export_user_data(user_id): four SELECTs
gdpr_export_user_data(user_id) ==
    /\ last' = Call("export", "", None,
                    Some(export_data(sessions, activities, preferences, consent,
                                     user_id)),
                    0, TRUE, user_id, NoneStr)
    /\ UNCHANGED <<sessions, session_timeout, now, issued, threads, other_tables>>

\* GDPRHandler.record_consent(user_id, consent_type, granted): one clock
\* read, one INSERT OR REPLACE
gdpr_record_consent(user_id, consent_type, granted) ==
    \E timestamp \in now..MaxTime :
        /\ Len(save_consent(consent, user_id, consent_type, granted, timestamp))
              <= MaxRows
        /\ consent' = save_consent(consent, user_id, consent_type, granted, timestamp)
        /\ now' = timestamp
        /\ last' = Call("record", "", None, Some(granted), timestamp, TRUE,
                        user_id, consent_type)
        /\ UNCHANGED <<sessions, session_timeout, issued, threads, activities,
                       activity_seq, preferences, defaults>>

\* what get_consent(user_id, consent_type) returns: bool(granted) of the
\* first row WHERE user_id = ? AND consent_type = ?, False when there is
\* none; no row equals a NULL consent_type
get_consent_result(C, user_id, consent_type) ==
    LET rows == SelectSeq(C, LAMBDA r : /\ consent_type # NoneStr
                                        /\ r.user_id = user_id
                                        /\ r.consent_type = consent_type) IN
    IF Len(rows) > 0 THEN rows[1].granted ELSE FALSE

\* GDPRHandler.get_consent(user_id, consent_type)
gdpr_get_consent(user_id, consent_type) ==
    /\ last' = Call("get_consent", "", None, None, 0,
                    get_consent_result(consent, user_id, consent_type),
                    user_id, consent_type)
    /\ UNCHANGED <<sessions, session_timeout, now, issued, threads, other_tables>>

\* PreferenceManager.set_preferences(user_id, preferences): json.dumps, then
\* INSERT OR REPLACE
set_preferences(user_id, prefs) ==
    /\ preferences' = save_preferences(preferences, user_id,
                                       json_dumps_preferences(prefs))
    /\ last' = Call("set_preferences", "", None, Some(prefs), 0, TRUE, user_id,
                    NoneStr)
    /\ UNCHANGED <<sessions, session_timeout, now, issued, threads, activities,
                   activity_seq, consent, defaults>>

----------------------------------------------------------------------------
(* PreferenceManager and PrivacyManager.  get_preferences returns           *)
(* json.loads of the stored text, or self.defaults.copy(): a new outer      *)
(* dict whose nested dicts are the ones of self.defaults.                   *)

\* what get_preferences(user_id) returns, D being self.defaults
get_preferences_result(P, D, user_id) ==
    IF user_id \in DOMAIN P THEN json_loads_preferences(P[user_id]) ELSE D

\* preferences[key] = value on a preferences mapping
preferences_set(prefs, key, value) ==
    [k \in DOMAIN prefs \cup {key} |-> IF k = key THEN value ELSE prefs[k]]

\* variant: the defaults are stored when a user without a row is read
get_preferences_persisting(user_id) ==
    /\ preferences' = IF user_id \in DOMAIN preferences THEN preferences
                      ELSE save_preferences(preferences, user_id,
                                            json_dumps_preferences(defaults))
    /\ last' = Call("get_preferences", "", None,
                    Some(get_preferences_result(preferences, defaults, user_id)),
                    0, TRUE, user_id, NoneStr)
    /\ UNCHANGED <<sessions, session_timeout, now, issued, threads, activities,
                   activity_seq, consent, defaults>>

\* PreferenceManager.get_preferences(user_id): one SELECT
get_preferences(user_id) ==
    /\ last' = Call("get_preferences", "", None,
                    Some(get_preferences_result(preferences, defaults, user_id)),
                    0, TRUE, user_id, NoneStr)
    /\ UNCHANGED <<sessions, session_timeout, now, issued, threads, other_tables>>

\* PreferenceManager.get_preference(user_id, key): preferences.get(key, None)
get_preference(user_id, key) ==
    LET prefs == get_preferences_result(preferences, defaults, user_id) IN
    /\ last' = Call("get_preference", "", None,
                    IF key \in DOMAIN prefs THEN Some(prefs[key]) ELSE None,
                    0, TRUE, user_id, key)
    /\ UNCHANGED <<sessions, session_timeout, now, issued, threads, other_tables>>

\* variant: only the key is stored
update_preference_key_only(user_id, key, value) ==
    /\ preferences' = save_preferences(preferences, user_id,
                          json_dumps_preferences(
                              preferences_set(EmptyPreferences, key, value)))
    /\ last' = Call("update_preference", "", None, Some(value), 0, TRUE, user_id, key)
    /\ UNCHANGED <<sessions, session_timeout, now, issued, threads, activities,
                   activity_seq, consent, defaults>>

\* PreferenceManager.update_preference(user_id, key, value): get_preferences,
\* preferences[key] = value on the outer dict, set_preferences
update_preference(user_id, key, value) ==
    LET prefs == get_preferences_result(preferences, defaults, user_id) IN
    /\ preferences' = save_preferences(preferences, user_id,
                          json_dumps_preferences(preferences_set(prefs, key, value)))
    /\ last' = Call("update_preference", "", None, Some(value), 0, TRUE, user_id, key)
    /\ UNCHANGED <<sessions, session_timeout, now, issued, threads, activities,
                   activity_seq, consent, defaults>>

\* PreferenceManager.reset_preferences(user_id)
reset_preferences(user_id) ==
    /\ preferences' = save_preferences(preferences, user_id,
                                       json_dumps_preferences(defaults))
    /\ last' = Call("reset_preferences", "", None, None, 0, TRUE, user_id, NoneStr)
    /\ UNCHANGED <<sessions, session_timeout, now, issued, threads, activities,
                   activity_seq, consent, defaults>>

\* a bool as a Python value
py_bool(b) == IF b THEN "py:True" ELSE "py:False"

\* preferences['privacy'] after a setter of PrivacyManager wrote into it: a
\* 'privacy' dict is added when there is none, then [setting] = flag
privacy_written(prefs, setting, flag) ==
    dict_set(IF "privacy" \in DOMAIN prefs THEN prefs["privacy"].sub ELSE EmptyDict,
             setting, py_bool(flag))

\* what a setter of PrivacyManager leaves behind: get_preferences, the write
\* into preferences['privacy'], set_preferences.  For a user without a row
\* the dict written into is self.defaults['privacy'] itself.
privacy_stored(user_id, setting, flag) ==
    LET prefs == get_preferences_result(preferences, defaults, user_id)
        written == Dict(privacy_written(prefs, setting, flag)) IN
    [defaults |-> IF user_id \in DOMAIN preferences THEN defaults
                  ELSE preferences_set(defaults, "privacy", written),
     preferences |-> save_preferences(preferences, user_id,
                        json_dumps_preferences(
                            preferences_set(prefs, "privacy", written)))]

\* PrivacyManager.set_profile_visibility(user_id, public)
set_profile_visibility(user_id, public) ==
    /\ defaults' = privacy_stored(user_id, "profile_public", public).defaults
    /\ preferences' = privacy_stored(user_id, "profile_public", public).preferences
    /\ last' = Call("set_profile_visibility", "", None, None, 0, public, user_id,
                    "profile_public")
    /\ UNCHANGED <<sessions, session_timeout, now, issued, threads, activities,
                   activity_seq, consent>>

\* PrivacyManager.set_activity_visibility(user_id, visible)
set_activity_visibility(user_id, visible) ==
    /\ defaults' = privacy_stored(user_id, "show_activity", visible).defaults
    /\ preferences' = privacy_stored(user_id, "show_activity", visible).preferences
    /\ last' = Call("set_activity_visibility", "", None, None, 0, visible, user_id,
                    "show_activity")
    /\ UNCHANGED <<sessions, session_timeout, now, issued, threads, activities,
                   activity_seq, consent>>

\* PrivacyManager.set_analytics_consent(user_id, allow)
set_analytics_consent(user_id, allow) ==
    /\ defaults' = privacy_stored(user_id, "allow_analytics", allow).defaults
    /\ preferences' = privacy_stored(user_id, "allow_analytics", allow).preferences
    /\ last' = Call("set_analytics_consent", "", None, None, 0, allow, user_id,
                    "allow_analytics")
    /\ UNCHANGED <<sessions, session_timeout, now, issued, threads, activities,
                   activity_seq, consent>>

\* PrivacyManager.get_privacy_settings(user_id): preferences.get('privacy', {})
get_privacy_settings(user_id) ==
    LET prefs == get_preferences_result(preferences, defaults, user_id) IN
    /\ last' = Call("get_privacy_settings", "", None,
                    Some(IF "privacy" \in DOMAIN prefs THEN prefs["privacy"]
                         ELSE Dict(EmptyDict)),
                    0, TRUE, user_id, NoneStr)
    /\ UNCHANGED <<sessions, session_timeout, now, issued, threads, other_tables>>

----------------------------------------------------------------------------
(* The Flask application: api/app.py.  before_request_handler runs before  *)
(* every route; a route under @require_session runs its handler only when *)
(* g.session is set.                                                       *)

users_db ==
    [u \in {"admin", "user1"} |->
        IF u = "admin"
        THEN [password |-> "admin123", user_id |-> 1]
        ELSE [password |-> "user123", user_id |-> 2]]

\* JSON bodies of POST /auth/login: None (no body, or {}), or a mapping in
\* which either field may be missing (None)
LoginBody(username, password) == Some([username |-> username, password |-> password])
LoginBodies ==
    {None,
     LoginBody(Some("admin"), None),
     LoginBody(Some("admin"), Some("admin123")),
     LoginBody(Some("user1"), Some("user123")),
     LoginBody(Some("admin"), Some("user123")),
     LoginBody(Some("nobody"), Some("admin123"))}

\* bodies of the other routes: None (no body, or the field missing) or the
\* field's value
PageBodies == {None, Some("/dashboard")}
ActionBodies == {None, Some("submit")}
PreferenceBodies ==
    {None, Some(EmptyPreferences), Some([theme |-> Leaf("py:'dark'")])}
ConsentBodies == {None, Some([consent_type |-> "analytics", granted |-> TRUE])}

\* truthiness of the session id a request resolves to
has_session_id(session_id) == session_id # None /\ session_id[1] # ""

\* the text of a resolved session id ("" when there is none)
sid_text(session_id) == IF has_session_id(session_id) THEN session_id[1] ELSE ""

\* variant: the presented id is taken for a session without a lookup
before_request_handler_trusting(S, session_id, t0) ==
    IF has_session_id(session_id)
    THEN {[store |-> S,
           ret |-> Some([session_id |-> session_id[1], user_id |-> 1]),
           session |-> None, t |-> t0, clock |-> t0]}
    ELSE {[store |-> S, ret |-> None, session |-> None, t |-> t0, clock |-> t0]}

\* variant: the session is looked up, but the user id the routes act on is
\* one the request names (the first user), not the one of the session
before_request_handler_named_user(S, session_id, t0) ==
    IF has_session_id(session_id)
    THEN {[e EXCEPT !.ret = IF e.ret = None THEN None
                            ELSE Some([e.ret[1] EXCEPT !.user_id = 1])] :
            e \in get_session_outcomes(S, session_id[1], t0)}
    ELSE {[store |-> S, ret |-> None, session |-> None, t |-> t0, clock |-> t0]}

\* SessionMiddleware.before_request_handler: get_session on a truthy id;
\* ret is g.session
before_request_handler(S, session_id, t0) ==
    IF has_session_id(session_id)
    THEN get_session_outcomes(S, session_id[1], t0)
    ELSE {[store |-> S, ret |-> None, session |-> None, t |-> t0, clock |-> t0]}

\* a response that follows the middleware e and runs no handler code that
\* writes: 401 of require_session, 400 of a handler, 200 of a reading handler
respond(op, session_id, e, status) ==
    /\ sessions' = e.store
    /\ now' = e.clock
    /\ last' = Call(op, sid_text(session_id), None, None, e.t, TRUE, status, NoneStr)
    /\ UNCHANGED <<session_timeout, issued, threads, other_tables>>

\* variant: the password is not compared
login_status_any_password(data) ==
    IF data = None \/ data[1].username = None \/ data[1].password = None
    THEN 400
    ELSE IF data[1].username[1] \in DOMAIN users_db
    THEN 200
    ELSE 401

\* the status login answers a body with: 400 when the body is empty or a
\* field is missing, 200 when users_db holds the pair, else 401
login_status(data) ==
    IF data = None \/ data[1].username = None \/ data[1].password = None
    THEN 400
    ELSE IF /\ data[1].username[1] \in DOMAIN users_db
            /\ users_db[data[1].username[1]].password = data[1].password[1]
    THEN 200
    ELSE 401

\* POST /auth/login
login(session_id, data) ==
    \E e \in before_request_handler(sessions, session_id, now) :
        IF login_status(data) = 400
        THEN respond("login", None, e, 400)
        ELSE IF login_status(data) = 200
        THEN \E t1 \in e.clock..MaxTime :
             \E t2 \in t1..MaxTime :
             \E t3 \in t2..MaxTime :
                LET user_id == users_db[data[1].username[1]].user_id
                    new_id == token_urlsafe(issued) IN
                /\ Cardinality(issued) < Len(AllTokens)
                /\ activity_seq < MaxEvents
                /\ \E ip \in IpAddrs :
                      /\ sessions' = store_create_session(e.store, new_id, user_id,
                                         t1 + session_timeout, ip, NoneStr, t2)
                      /\ activities' = insert_activity(activities, activity_seq,
                                         user_id, new_id, "login",
                                         "{\"action\": \"user_logged_in\"}", ip, t3)
                /\ activity_seq' = activity_seq + 1
                /\ issued' = issued \cup {new_id}
                /\ now' = t3
                /\ last' = Call("login", new_id, None, None, t1, TRUE, 200,
                                data[1].username[1])
                /\ UNCHANGED <<session_timeout, threads, preferences, consent, defaults>>
        ELSE respond("login", None, e, 401)

\* variant: the event is logged and the session is left in the table
logout_keeps_session(session_id) ==
    \E e \in before_request_handler(sessions, session_id, now) :
        IF e.ret = None
        THEN respond("logout", session_id, e, 401)
        ELSE \E t3 \in e.clock..MaxTime :
                /\ activity_seq < MaxEvents
                /\ activities' = insert_activity(activities, activity_seq,
                                     e.ret[1].user_id, session_id[1], "logout",
                                     "{\"action\": \"user_logged_out\"}", NoneStr, t3)
                /\ activity_seq' = activity_seq + 1
                /\ sessions' = e.store
                /\ now' = t3
                /\ last' = Call("logout", session_id[1], None, None, e.t, TRUE,
                                200, NoneStr)
                /\ UNCHANGED <<session_timeout, issued, threads, preferences, consent, defaults>>

\* POST /auth/logout
logout(session_id) ==
    \E e \in before_request_handler(sessions, session_id, now) :
        IF e.ret = None
        THEN respond("logout", session_id, e, 401)
        ELSE \E t3 \in e.clock..MaxTime :
                /\ activity_seq < MaxEvents
                /\ activities' = insert_activity(activities, activity_seq,
                                     e.ret[1].user_id, session_id[1], "logout",
                                     "{\"action\": \"user_logged_out\"}", NoneStr, t3)
                /\ activity_seq' = activity_seq + 1
                /\ sessions' = delete_session(e.store, session_id[1])
                /\ now' = t3
                /\ last' = Call("logout", session_id[1], None, None, e.t, TRUE,
                                200, NoneStr)
                /\ UNCHANGED <<session_timeout, issued, threads, preferences, consent, defaults>>

\* GET /api/session, /api/analytics/user, /api/analytics/journey,
\* /api/preferences and /api/gdpr/export: the handler only reads
protected_read(session_id) ==
    \E e \in before_request_handler(sessions, session_id, now) :
        respond("read", session_id, e, IF e.ret = None THEN 401 ELSE 200)

\* POST /api/track/page
track_page_view(session_id, data) ==
    \E e \in before_request_handler(sessions, session_id, now) :
        IF e.ret = None THEN respond("track_page_view", session_id, e, 401)
        ELSE IF data = None THEN respond("track_page_view", session_id, e, 400)
        ELSE \E t3 \in e.clock..MaxTime :
                /\ activity_seq < MaxEvents
                /\ activities' = insert_activity(activities, activity_seq,
                                     e.ret[1].user_id, session_id[1], "page_view",
                                     "{\"page\": \"/dashboard\"}", NoneStr, t3)
                /\ activity_seq' = activity_seq + 1
                /\ sessions' = e.store
                /\ now' = t3
                /\ last' = Call("track_page_view", session_id[1], None, None, e.t,
                                TRUE, 200, NoneStr)
                /\ UNCHANGED <<session_timeout, issued, threads, preferences, consent, defaults>>

\* POST /api/track/action
track_action(session_id, data) ==
    \E e \in before_request_handler(sessions, session_id, now) :
        IF e.ret = None THEN respond("track_action", session_id, e, 401)
        ELSE IF data = None THEN respond("track_action", session_id, e, 400)
        ELSE \E t3 \in e.clock..MaxTime :
                /\ activity_seq < MaxEvents
                /\ activities' = insert_activity(activities, activity_seq,
                                     e.ret[1].user_id, session_id[1], "button_click",
                                     "{\"action\": \"submit\", \"details\": null}",
                                     NoneStr, t3)
                /\ activity_seq' = activity_seq + 1
                /\ sessions' = e.store
                /\ now' = t3
                /\ last' = Call("track_action", session_id[1], None, None, e.t,
                                TRUE, 200, NoneStr)
                /\ UNCHANGED <<session_timeout, issued, threads, preferences, consent, defaults>>

\* PUT /api/preferences
update_preferences(session_id, data) ==
    \E e \in before_request_handler(sessions, session_id, now) :
        IF e.ret = None THEN respond("update_preferences", session_id, e, 401)
        ELSE IF data = None \/ data[1] = EmptyPreferences
        THEN respond("update_preferences", session_id, e, 400)
        ELSE /\ preferences' = save_preferences(preferences, e.ret[1].user_id,
                                   json_dumps_preferences(data[1]))
             /\ sessions' = e.store
             /\ now' = e.clock
             /\ last' = Call("update_preferences", session_id[1], None, None, e.t,
                             TRUE, 200, NoneStr)
             /\ UNCHANGED <<session_timeout, issued, threads, activities,
                            activity_seq, consent, defaults>>

\* DELETE /api/gdpr/delete
delete_user_data(session_id) ==
    \E e \in before_request_handler(sessions, session_id, now) :
        IF e.ret = None THEN respond("delete_user_data", session_id, e, 401)
        ELSE LET user_id == e.ret[1].user_id IN
             /\ sessions' = delete_user_sessions(e.store, user_id)
             /\ activities' = delete_user_activities(activities, user_id)
             /\ preferences' = delete_user_preferences(preferences, user_id)
             /\ consent' = delete_user_consent(consent, user_id)
             /\ now' = e.clock
             /\ last' = Call("delete_user_data", session_id[1], None, None, e.t,
                             TRUE, 200, NoneStr)
             /\ UNCHANGED <<session_timeout, issued, threads, activity_seq, defaults>>

\* POST /api/consent
record_consent(session_id, data) ==
    \E e \in before_request_handler(sessions, session_id, now) :
        IF e.ret = None THEN respond("record_consent", session_id, e, 401)
        ELSE IF data = None THEN respond("record_consent", session_id, e, 400)
        ELSE \E t3 \in e.clock..MaxTime :
                /\ consent' = save_consent(consent, e.ret[1].user_id,
                                  data[1].consent_type, data[1].granted, t3)
                /\ sessions' = e.store
                /\ now' = t3
                /\ last' = Call("record_consent", session_id[1], None, None, e.t,
                                TRUE, 200, NoneStr)
                /\ UNCHANGED <<session_timeout, issued, threads, activities,
                               activity_seq, preferences, defaults>>

\* what the session id of a request resolves to: none, or an id (an empty
\* id is handled as none)
RequestSessionIds == {None} \cup {Some(s) : s \in SessionIds}

\* every route of the application, for the browser of the first user to log
\* in: no login is made after it
ApiNext ==
    \/ Tick
    \/ /\ issued = {}
       /\ \E session_id \in RequestSessionIds, data \in LoginBodies :
             login(session_id, data)
    \/ \E session_id \in RequestSessionIds : logout(session_id)
    \/ \E session_id \in RequestSessionIds : protected_read(session_id)
    \/ \E session_id \in RequestSessionIds, data \in PageBodies :
          track_page_view(session_id, data)
    \/ \E session_id \in RequestSessionIds, data \in ActionBodies :
          track_action(session_id, data)
    \/ \E session_id \in RequestSessionIds, data \in PreferenceBodies :
          update_preferences(session_id, data)
    \/ \E session_id \in RequestSessionIds : delete_user_data(session_id)
    \/ \E session_id \in RequestSessionIds, data \in ConsentBodies :
          record_consent(session_id, data)

ApiSpec == Init /\ [][ApiNext]_vars

\* the routes of authentication and the ones a logged-in browser calls most
AuthNext ==
    \/ Tick
    \/ \E session_id \in RequestSessionIds, data \in LoginBodies : login(session_id, data)
    \/ \E session_id \in RequestSessionIds : logout(session_id)
    \/ \E session_id \in RequestSessionIds : protected_read(session_id)
    \/ \E session_id \in RequestSessionIds, data \in PageBodies :
          track_page_view(session_id, data)

AuthSpec == Init /\ [][AuthNext]_vars

----------------------------------------------------------------------------
(* The activity log under direct calls of ActivityTracker, SessionManager  *)
(* and GDPRHandler, and logout                                             *)

TrackNext ==
    \/ Tick
    \/ \E u \in UserIds, ip \in IpAddrs, ua \in UserAgents : thread_create(u, ip, ua)
    \/ \E s \in SessionIds : get_session(s)
    \/ \E s \in SessionIds : destroy_session(s)
    \/ \E u \in UserIds : destroy_user_sessions(u)
    \/ cleanup_expired_sessions
    \/ \E s \in SessionIds : logout(Some(s))
    \/ \E u \in UserIds : track_event(u, "custom", AllTokens[1])
    \/ \E days \in 0..MaxTime : delete_old_activities(days)
    \/ \E u \in UserIds : gdpr_delete_user_data(u)

TrackSpec == Init /\ [][TrackNext]_vars

----------------------------------------------------------------------------
(* ActivityTracker.track_event over every user, event type and session id, *)
(* with a session that comes and goes                                      *)

CountNext ==
    \/ \E u \in UserIds, ip \in IpAddrs, ua \in UserAgents : thread_create(u, ip, ua)
    \/ \E s \in SessionIds : destroy_session(s)
    \/ \E u \in UserIds, type \in EventTypes, s \in SessionIds :
          track_event(u, type, s)

CountSpec == Init /\ [][CountNext]_vars


\* the preferences mapping callers store in these runs
DarkTheme == [theme |-> Leaf("py:'dark'")]

\* the GDPR handler next to the session manager, the activity tracker and
\* the preference manager on one database, in a stretch of time in which
\* the clock reads the same value
GdprNext ==
    \/ \E user_id \in UserIds, ip_address \in IpAddrs, user_agent \in UserAgents :
          create_session(user_id, ip_address, user_agent)
    \/ \E session_id \in SessionIds : validate_session(session_id)
    \/ \E user_id \in UserIds : track_event(user_id, "custom", AllTokens[1])
    \/ \E user_id \in UserIds : set_preferences(user_id, DarkTheme)
    \/ \E user_id \in UserIds : gdpr_record_consent(user_id, "analytics", TRUE)
    \/ \E user_id \in UserIds : gdpr_delete_user_data(user_id)
    \/ \E user_id \in UserIds, k \in 1..4 : gdpr_delete_user_data_failed(user_id, k)
    \/ \E user_id \in UserIds : gdpr_export_user_data(user_id)

GdprSpec == InitAt(MaxTime) /\ [][GdprNext]_vars

\* one PreferenceManager with its PrivacyManager, and the GDPR export on the
\* same database
PrefNext ==
    \/ \E user_id \in UserIds : get_preferences(user_id)
    \/ \E user_id \in UserIds : get_preference(user_id, "theme")
    \/ \E user_id \in UserIds : set_preferences(user_id, DarkTheme)
    \/ set_preferences(1, EmptyPreferences)
    \/ \E user_id \in UserIds : update_preference(user_id, "theme", Leaf("py:'dark'"))
    \/ \E user_id \in UserIds : reset_preferences(user_id)
    \/ \E user_id \in UserIds : set_profile_visibility(user_id, TRUE)
    \/ set_activity_visibility(1, FALSE)
    \/ set_analytics_consent(2, FALSE)
    \/ \E user_id \in UserIds : get_privacy_settings(user_id)
    \/ \E user_id \in UserIds : gdpr_export_user_data(user_id)

PrefSpec == Init /\ [][PrefNext]_vars

\* the GDPR export next to the writers of the four tables, as time passes
ExportNext ==
    \/ Tick
    \/ \E user_id \in UserIds, ip_address \in IpAddrs, user_agent \in UserAgents :
          thread_create(user_id, ip_address, user_agent)
    \/ \E user_id \in UserIds : track_event(user_id, "custom", AllTokens[1])
    \/ \E user_id \in UserIds : gdpr_record_consent(user_id, "analytics", TRUE)
    \/ set_preferences(1, DarkTheme)
    \/ \E user_id \in UserIds : gdpr_export_user_data(user_id)

ExportSpec == Init /\ [][ExportNext]_vars

(* BehavioralTracker.get_user_journey                                      *)

\* the largest timestamp of a stored activities table of the journey query
JourneyTimes == 2 * JourneyLimit

\* the rows in reverse
journey_reverse(rows) == [k \in DOMAIN rows |-> rows[Len(rows) + 1 - k]]

\* the rows with timestamps in lo..hi, ordered: those of the lower half of
\* the range before those of the upper half, rows of one timestamp in rowid
\* order or its reverse
RECURSIVE journey_order_range(_, _, _, _)
journey_order_range(rows, by_id, lo, hi) ==
    IF rows = <<>> THEN <<>>
    ELSE IF lo = hi
    THEN LET ties == SelectSeq(rows, LAMBDA r : r.timestamp = lo) IN
         IF by_id THEN ties ELSE journey_reverse(ties)
    ELSE LET mid == (lo + hi) \div 2 IN
         journey_order_range(SelectSeq(rows, LAMBDA r : r.timestamp <= mid),
                             by_id, lo, mid)
           \o journey_order_range(SelectSeq(rows, LAMBDA r : r.timestamp > mid),
                                  by_id, mid + 1, hi)

\* ORDER BY timestamp ASC
journey_order_by(rows, by_id) == journey_order_range(rows, by_id, 0, JourneyTimes)

\* LIMIT n
journey_limit(rows, n) == SubSeq(rows, 1, IF Len(rows) < n THEN Len(rows) ELSE n)

\* json.loads of the event_data column: the texts EventLogger stores, or a
\* value of the table above
json_loads_event(j) ==
    CASE j = "{\"action\": \"user_logged_in\"}" -> "py:{'action': 'user_logged_in'}"
      [] j = "{\"action\": \"user_logged_out\"}" -> "py:{'action': 'user_logged_out'}"
      [] j = "{\"page\": \"/dashboard\"}" -> "py:{'page': '/dashboard'}"
      [] j = "{\"action\": \"submit\", \"details\": null}"
           -> "py:{'action': 'submit', 'details': None}"
      [] OTHER -> json_loads_value(j)

\* one element of the returned list: event_data is json.loads of the column,
\* {} when the column is NULL or the empty text
journey_entry(row) ==
    [event_type |-> row.event_type,
     event_data |-> IF row.event_data = NoneStr \/ row.event_data = "" THEN "py:{}"
                    ELSE json_loads_event(row.event_data),
     timestamp |-> row.timestamp]

\* variant: the LIMIT is left out of the query without a session filter
get_user_journey_unlimited(A, user_id, session_id, by_id) ==
    LET rows ==
          IF session_id # NoneStr /\ session_id # ""
          THEN journey_order_by(
                   SelectSeq(A, LAMBDA r : r.user_id = user_id
                                             /\ r.session_id = session_id), by_id)
          ELSE journey_order_by(SelectSeq(A, LAMBDA r : r.user_id = user_id), by_id)
    IN [k \in DOMAIN rows |-> journey_entry(rows[k])]

\* what get_user_journey(user_id, session_id) returns: the query with the
\* session filter when session_id is truthy, else the query over all of the
\* user's rows with LIMIT 100
get_user_journey_result(A, user_id, session_id, by_id) ==
    LET rows ==
          IF session_id # NoneStr /\ session_id # ""
          THEN journey_order_by(
                   SelectSeq(A, LAMBDA r : r.user_id = user_id
                                             /\ r.session_id = session_id), by_id)
          ELSE journey_limit(
                   journey_order_by(SelectSeq(A, LAMBDA r : r.user_id = user_id),
                                    by_id),
                   JourneyLimit)
    IN [k \in DOMAIN rows |-> journey_entry(rows[k])]

\* BehavioralTracker.get_user_journey(user_id, session_id=None)
get_user_journey(user_id, session_id) ==
    \E by_id \in BOOLEAN :
        /\ last' = Call("journey", session_id, None,
                        Some(get_user_journey_result(activities, user_id,
                                                     session_id, by_id)),
                        0, TRUE, user_id, NoneStr)
        /\ UNCHANGED <<sessions, session_timeout, now, issued, threads,
                       other_tables>>

\* row i of an activities table of n rows: every fourth row is user 2's when
\* users are mixed; sessions alternate between the two tokens and NULL when
\* mixed; timestamps rise with the id, fall with it, or repeat
JourneyRow(i, n, order, mixed_users, mixed_sessions) ==
    [id |-> i,
     user_id |-> IF mixed_users /\ i % 4 = 0 THEN 2 ELSE 1,
     session_id |-> IF ~mixed_sessions THEN AllTokens[1]
                    ELSE IF i % 2 = 0 THEN AllTokens[2]
                    ELSE IF i % 3 = 0 THEN NoneStr ELSE AllTokens[1],
     event_type |-> IF i % 2 = 0 THEN "custom" ELSE "",
     event_data |-> IF i % 3 = 0 THEN NoneStr ELSE "json:{\"a\": [1]}",
     ip_address |-> NoneStr,
     user_agent |-> NoneStr,
     timestamp |-> CASE order = "asc" -> i
                     [] order = "desc" -> n - i
                     [] order = "ties" -> (n - i) % 3]

\* sizes of the activities tables: none, a few, the limit, past the limit
JourneySizes ==
    (0..MaxEvents) \cup {JourneyLimit, JourneyLimit + 1, 2 * JourneyLimit}

\* the journey query over a stored activities table
JourneyInit ==
    /\ sessions = [s \in {} |-> 0]
    /\ session_timeout = 0
    /\ now = 0
    /\ issued = {}
    /\ last = NoCall
    /\ threads = [i \in ThreadIds |-> Idle]
    /\ \E n \in JourneySizes, order \in {"asc", "desc", "ties"},
          mixed_users \in BOOLEAN, mixed_sessions \in BOOLEAN :
            /\ activities = [i \in 1..n |->
                               JourneyRow(i, n, order, mixed_users, mixed_sessions)]
            /\ activity_seq = n
    /\ preferences = [u \in {} |-> EmptyPreferences]
    /\ consent = <<>>
    /\ defaults = DefaultPreferences

JourneyNext ==
    \E user_id \in UserIds, session_id \in SessionIds \cup {NoneStr, ""} :
        get_user_journey(user_id, session_id)

JourneySpec == JourneyInit /\ [][JourneyNext]_vars

\* consent types a caller records: two names, and None (a JSON null in the
\* body of POST /api/consent, whose handler checks only that the key is
\* there)
ConsentTypes == {"analytics", "marketing", NoneStr}

\* the consent table under record_consent, get_consent and the erase
ConsentNext ==
    \/ Tick
    \/ \E user_id \in UserIds, consent_type \in ConsentTypes, granted \in BOOLEAN :
          gdpr_record_consent(user_id, consent_type, granted)
    \/ \E user_id \in UserIds, consent_type \in ConsentTypes :
          gdpr_get_consent(user_id, consent_type)
    \/ \E user_id \in UserIds : gdpr_delete_user_data(user_id)

ConsentSpec == Init /\ [][ConsentNext]_vars

\* the sessions of two users under create, validate and destroy-all
UserSessionsNext ==
    \/ Tick
    \/ \E user_id \in UserIds :
          create_session(user_id, CHOOSE ip \in IpAddrs : TRUE,
                         CHOOSE ua \in UserAgents : TRUE)
    \/ \E session_id \in SessionIds : validate_session(session_id)
    \/ \E user_id \in UserIds : destroy_user_sessions(user_id)

UserSessionsSpec == Init /\ [][UserSessionsNext]_vars

\* the gauge of active sessions next to create and destroy
StatsNext ==
    \/ Tick
    \/ \E user_id \in UserIds :
          create_session(user_id, CHOOSE ip \in IpAddrs : TRUE,
                         CHOOSE ua \in UserAgents : TRUE)
    \/ \E session_id \in SessionIds : destroy_session(session_id)
    \/ get_session_stats

StatsSpec == Init /\ [][StatsNext]_vars

(* ActivityAnalytics.get_conversion_funnel                                 *)

\* SELECT COUNT(DISTINCT user_id) FROM activities WHERE event_type = ?
funnel_users(A, step) ==
    Cardinality({A[i].user_id : i \in {j \in DOMAIN A : A[j].event_type = step}})

\* (users / previous) * 100 in hundredths of a percent, rounded to the
\* nearest as the format does.  With fewer than 32 users at the preceding
\* step the exact quotient is never halfway between two hundredths, and the
\* float product is too close to it to round the other way
conversion_hundredths(users, previous) ==
    (2 * 10000 * users + previous) \div (2 * previous)

\* variant: the rate is cut off after two decimals, not rounded
conversion_rate_truncated(users, previous) ==
    LET h == (10000 * users) \div previous IN
    ToString(h \div 100) \o "." \o ToString((h % 100) \div 10)
        \o ToString(h % 10) \o "%"

\* f"{conversion_rate:.2f}%"
conversion_rate(users, previous) ==
    LET h == conversion_hundredths(users, previous) IN
    ToString(h \div 100) \o "." \o ToString((h % 100) \div 10)
        \o ToString(h % 10) \o "%"

\* what get_conversion_funnel(steps) returns: one entry per step with the
\* count, and from the second entry on a conversion_rate when the entry
\* before it has users
get_conversion_funnel_result(A, steps) ==
    [i \in DOMAIN steps |->
        IF i > 1 /\ funnel_users(A, steps[i - 1]) > 0
        THEN [step |-> steps[i], users |-> funnel_users(A, steps[i]),
              conversion_rate |-> conversion_rate(funnel_users(A, steps[i]),
                                                  funnel_users(A, steps[i - 1]))]
        ELSE [step |-> steps[i], users |-> funnel_users(A, steps[i])]]

\* ActivityAnalytics.get_conversion_funnel(steps)
get_conversion_funnel(steps) ==
    /\ last' = Call("funnel", "", None,
                    Some(get_conversion_funnel_result(activities, steps)),
                    0, TRUE, 0, steps)
    /\ UNCHANGED <<sessions, session_timeout, now, issued, threads, other_tables>>

\* the event types of a three-step funnel, and one that no event has
FunnelSteps == <<"view", "cart", "purchase">>
FunnelOther == "other"

\* the lists of steps asked for
FunnelStepLists ==
    {<<>>, <<FunnelSteps[1]>>, FunnelSteps,
     <<FunnelSteps[3], FunnelSteps[2], FunnelSteps[1]>>,
     <<FunnelSteps[1], FunnelOther, FunnelSteps[2]>>,
     <<FunnelSteps[2], FunnelSteps[2]>>}

\* slot k of an activities table in which a users have the first event
\* type (each twice), the last b users the second and c users the third
FunnelRow(k) ==
    [id |-> k,
     user_id |-> ((k - 1) \div 4) + 1,
     session_id |-> NoneStr,
     event_type |-> FunnelSteps[IF k % 4 < 2 THEN 1 ELSE k % 4],
     event_data |-> NoneStr,
     ip_address |-> NoneStr,
     user_agent |-> NoneStr,
     timestamp |-> 0]

FunnelTable(a, b, c) ==
    SelectSeq([k \in 1..(4 * MaxUsers) |-> FunnelRow(k)],
              LAMBDA r : \/ r.event_type = FunnelSteps[1] /\ r.user_id <= a
                         \/ r.event_type = FunnelSteps[2] /\ r.user_id > MaxUsers - b
                         \/ r.event_type = FunnelSteps[3] /\ r.user_id <= c)

\* the funnel over a stored activities table
FunnelInit ==
    /\ sessions = [s \in {} |-> 0]
    /\ session_timeout = 0
    /\ now = 0
    /\ issued = {}
    /\ last = NoCall
    /\ threads = [i \in ThreadIds |-> Idle]
    /\ \E a \in 0..MaxUsers, b \in 0..MaxUsers, c \in 0..MaxUsers :
            /\ activities = FunnelTable(a, b, c)
            /\ activity_seq = 4 * MaxUsers
    /\ preferences = [u \in {} |-> EmptyPreferences]
    /\ consent = <<>>
    /\ defaults = DefaultPreferences

FunnelNext == \E steps \in FunnelStepLists : get_conversion_funnel(steps)

FunnelSpec == FunnelInit /\ [][FunnelNext]_vars

\* lookups of a session among the operations that may come between them:
\* data reads and writes, the sweep, tracking, destroy and the erase; the
\* clock moves inside the calls that read it
ValidityNext ==
    \/ \E user_id \in UserIds :
          create_session(user_id, CHOOSE ip \in IpAddrs : TRUE,
                         CHOOSE ua \in UserAgents : TRUE)
    \/ \E session_id \in SessionIds : get_session(session_id)
    \/ \E session_id \in SessionIds : validate_session(session_id)
    \/ set_session_data(AllTokens[1], "k1", "py:[1]")
    \/ get_session_data(AllTokens[1], "k1", NoneStr)
    \/ cleanup_expired_sessions
    \/ activity_seq = 0 /\ track_event(1, "custom", AllTokens[1])
    \/ \E session_id \in SessionIds : destroy_session(session_id)
    \/ \E user_id \in UserIds : gdpr_delete_user_data(user_id)

ValiditySpec == Init /\ [][ValidityNext]_vars

\* session data written and read on sessions that may be expired and still
\* stored
BypassNext ==
    \/ Tick
    \/ \E user_id \in UserIds :
          create_session(user_id, CHOOSE ip \in IpAddrs : TRUE,
                         CHOOSE ua \in UserAgents : TRUE)
    \/ \E session_id \in SessionIds, key \in Keys, value \in PyValues :
          set_session_data(session_id, key, value)
    \/ \E session_id \in SessionIds, key \in Keys :
          get_session_data(session_id, key, NoneStr)

BypassSpec == Init /\ [][BypassNext]_vars

\* lookups by get_session and by the middleware of GET /api/session
StaleNext ==
    \/ Tick
    \/ \E user_id \in UserIds :
          create_session(user_id, CHOOSE ip \in IpAddrs : TRUE,
                         CHOOSE ua \in UserAgents : TRUE)
    \/ \E session_id \in SessionIds : get_session(session_id)
    \/ \E session_id \in ResolvedSessionIds : request_session_info(session_id)

StaleSpec == Init /\ [][StaleNext]_vars

\* the two ways a session expires: the check of get_session and the sweep
ExpiryNext ==
    \/ Tick
    \/ \E user_id \in UserIds :
          create_session(user_id, CHOOSE ip \in IpAddrs : TRUE,
                         CHOOSE ua \in UserAgents : TRUE)
    \/ \E session_id \in SessionIds : get_session(session_id)
    \/ cleanup_expired_sessions

ExpirySpec == Init /\ [][ExpiryNext]_vars

\* requests that carry a session_id cookie, an X-Session-ID header, both or
\* neither, next to login (create_session) and the clock
CookieNext ==
    \/ Tick
    \/ \E user_id \in UserIds :
          create_session(user_id, CHOOSE ip \in IpAddrs : TRUE,
                         CHOOSE ua \in UserAgents : TRUE)
    \/ \E cookie \in HeaderValues, header \in HeaderValues :
          request_with_cookie_and_header(cookie, header)

CookieSpec == Init /\ [][CookieNext]_vars

(* Reading routes of api/app.py and the routes under two logged-in users  *)

\* GET /api/gdpr/export: export_user_data(g.user_id), after the middleware
api_export_user_data(session_id) ==
    \E e \in before_request_handler(sessions, session_id, now) :
        IF e.ret = None THEN respond("export_user_data", session_id, e, 401)
        ELSE /\ sessions' = e.store
             /\ now' = e.clock
             /\ last' = Call("export_user_data", session_id[1], None,
                             Some(export_data(e.store, activities, preferences,
                                              consent, e.ret[1].user_id)),
                             e.t, TRUE, 200, NoneStr)
             /\ UNCHANGED <<session_timeout, issued, threads, other_tables>>

\* GET /api/preferences: get_preferences(g.user_id)
api_get_preferences(session_id) ==
    \E e \in before_request_handler(sessions, session_id, now) :
        IF e.ret = None THEN respond("get_preferences", session_id, e, 401)
        ELSE /\ sessions' = e.store
             /\ now' = e.clock
             /\ last' = Call("get_preferences", session_id[1], None,
                             Some(get_preferences_result(preferences, defaults,
                                                         e.ret[1].user_id)),
                             e.t, TRUE, 200, NoneStr)
             /\ UNCHANGED <<session_timeout, issued, threads, other_tables>>

\* GET /api/analytics/journey: get_user_journey(g.user_id, g.session_id)
api_get_user_journey(session_id) ==
    \E e \in before_request_handler(sessions, session_id, now) :
        IF e.ret = None THEN respond("get_user_journey", session_id, e, 401)
        ELSE \E by_id \in BOOLEAN :
             /\ sessions' = e.store
             /\ now' = e.clock
             /\ last' = Call("get_user_journey", session_id[1], None,
                             Some(get_user_journey_result(activities,
                                      e.ret[1].user_id, session_id[1], by_id)),
                             e.t, TRUE, 200, NoneStr)
             /\ UNCHANGED <<session_timeout, issued, threads, other_tables>>

\* the two users of users_db logging in
IsolationLogins ==
    {LoginBody(Some("admin"), Some("admin123")),
     LoginBody(Some("user1"), Some("user123"))}

\* the protected routes called with the sessions of two logged-in users, in
\* a stretch of time in which the clock reads the same value
IsolationNext ==
    \/ \E data \in IsolationLogins : login(None, data)
    \/ \E session_id \in RequestSessionIds : logout(session_id)
    \/ \E session_id \in RequestSessionIds :
          track_page_view(session_id, Some("/dashboard"))
    \/ \E session_id \in RequestSessionIds :
          update_preferences(session_id, Some([theme |-> Leaf("py:'dark'")]))
    \/ \E session_id \in RequestSessionIds, data \in ConsentBodies \ {None} :
          record_consent(session_id, data)
    \/ \E session_id \in RequestSessionIds : delete_user_data(session_id)
    \/ \E session_id \in RequestSessionIds : api_export_user_data(session_id)
    \/ \E session_id \in RequestSessionIds : api_get_preferences(session_id)
    \/ \E session_id \in RequestSessionIds : api_get_user_journey(session_id)

IsolationSpec == InitAt(MaxTime) /\ [][IsolationNext]_vars

\* the retention policy next to the session manager and the activity tracker
RetentionNext ==
    \/ Tick
    \/ \E user_id \in UserIds, ip_address \in IpAddrs, user_agent \in UserAgents :
          create_session(user_id, ip_address, user_agent)
    \/ \E user_id \in UserIds : track_event(user_id, "custom", AllTokens[1])
    \/ \E retention_days \in 0..MaxTime : apply_retention_policy(retention_days)

RetentionSpec == Init /\ [][RetentionNext]_vars

----------------------------------------------------------------------------
(* Properties *)

\* the latest call was a lookup of a session: get_session itself, or
\* validate_session or the middleware calling it
IsLookup == last.op \in {"get", "validate", "request"}

\* the lookup found the session valid
LookupSucceeded ==
    IF last.op = "validate" THEN last.ok ELSE last.ret # None

\* every get_session on session_id in the current state returns None and
\* changes nothing
GetReturnsNotFound(session_id) ==
    \A e \in get_session_outcomes(sessions, session_id, now) :
        e.ret = None /\ e.store = sessions

C1_State ==
    /\ (IsLookup /\ last.session # None /\ last.t > last.session[1].expires_at)
          => /\ ~LookupSucceeded
             /\ last.sid \notin DOMAIN sessions
             /\ GetReturnsNotFound(last.sid)
    /\ (last.op \in {"get", "request"} /\ last.ret # None)
          => ~(last.ret[1].expires_at < last.t)

C1_Step ==
    \A s \in issued : s \notin DOMAIN sessions => s \notin DOMAIN sessions'

\* C1: a get whose expiry check happens at a time now > expires_at returns
\* not-found and removes the record; the id is never in the table again, so
\* every later get returns not-found too; and no get returns a record whose
\* expires_at is before the time of its expiry check.
C1_ExpiredGetIsDestructive == []C1_State /\ [][C1_Step]_vars

C1_Witness ==
    /\ last.op = "get"
    /\ last.session # None
    /\ last.t > last.session[1].expires_at
    /\ last.ret = None
    /\ DOMAIN sessions # {}

\* C2: a lookup of a session created with timeout T succeeds at every probe
\* time in [created_at, created_at + T] and fails at every probe time after
\* created_at + T.
C2_ValidForTimeoutFromCreatedAt ==
    (IsLookup /\ last.session # None) =>
        LET r == last.session[1] IN
        /\ (r.created_at <= last.t /\ last.t <= r.created_at + session_timeout)
              => LookupSucceeded
        /\ (last.t > r.created_at + session_timeout) => ~LookupSucceeded

\* C3: the expiry comparison is strict: a lookup whose expiry check happens
\* exactly at expires_at returns the record and leaves it in the table; a
\* lookup treats a fetched session as expired only when now > expires_at.
C3_ValidAtExpiryInstant ==
    (IsLookup /\ last.session # None) =>
        /\ (last.t = last.session[1].expires_at)
              => (LookupSucceeded /\ last.sid \in DOMAIN sessions)
        /\ ~LookupSucceeded => last.t > last.session[1].expires_at

C3_Witness ==
    /\ last.op = "get"
    /\ last.session # None
    /\ last.t = last.session[1].expires_at
    /\ last.ret # None
    /\ last.sid \in DOMAIN sessions

\* C4: while a session record exists its expires_at, user_id and created_at
\* keep the values written at creation, whatever call is made.
C4_ExpiryFixedAtCreation ==
    [][\A s \in DOMAIN sessions \cap DOMAIN sessions' :
          /\ sessions'[s].expires_at = sessions[s].expires_at
          /\ sessions'[s].user_id = sessions[s].user_id
          /\ sessions'[s].created_at = sessions[s].created_at]_vars

\* a lookup refreshed the activity of a session that holds data, to a time
\* past its expiry instant, and the expiry is what it was
C4_Witness ==
    /\ last.op \in {"get", "request"}
    /\ last.ret # None
    /\ sessions[last.sid].last_activity > last.ret[1].last_activity
    /\ sessions[last.sid].last_activity > sessions[last.sid].expires_at
    /\ sessions[last.sid].expires_at = last.ret[1].expires_at
    /\ DOMAIN sessions[last.sid].data # {}

\* C5: last_activity of a session record never decreases, in any sequence
\* and any interleaving of calls (the clock never goes backwards).
C5_LastActivityMonotone ==
    [][\A s \in DOMAIN sessions \cap DOMAIN sessions' :
          sessions'[s].last_activity >= sessions[s].last_activity]_vars

C6_State ==
    (IsLookup /\ LookupSucceeded) =>
        /\ last.sid \in DOMAIN sessions
        /\ sessions[last.sid].last_activity = now

C6_Step ==
    (last'.op \in {"get", "validate", "request"}
       /\ (IF last'.op = "validate" THEN ~last'.ok ELSE last'.ret = None))
    => \A s \in DOMAIN sessions' :
          s \in DOMAIN sessions /\ sessions'[s] = sessions[s]

\* C6: a successful get sets the stored last_activity of that session to the
\* current time of the call; a get that returns not-found leaves every
\* remaining record as it was.
C6_SuccessfulGetRefreshesActivity == []C6_State /\ [][C6_Step]_vars

C6_Witness ==
    /\ last.op = "get"
    /\ last.ret # None
    /\ sessions[last.sid].last_activity = now
    /\ sessions[last.sid].last_activity > last.ret[1].last_activity

\* C7: create_session adds exactly one record, under the returned id, with
\* the given user_id, empty data, created_at = last_activity and
\* expires_at = time of the call + timeout; every other record is unchanged;
\* a get at the instant of the call returns a record with that user_id.
C7_CreateAddsOneRecord ==
    [][(issued' # issued) =>
        LET sid == last'.sid IN
        /\ last'.op = "create"
        /\ sid \notin DOMAIN sessions
        /\ DOMAIN sessions' = DOMAIN sessions \cup {sid}
        /\ \A s \in DOMAIN sessions : sessions'[s] = sessions[s]
        /\ sessions'[sid].user_id = last'.n
        /\ DOMAIN sessions'[sid].data = {}
        /\ sessions'[sid].created_at = sessions'[sid].last_activity
        /\ now <= last'.t /\ last'.t <= now'
        /\ sessions'[sid].expires_at = last'.t + session_timeout
        /\ (now' = last'.t) =>
              \A e \in get_session_outcomes(sessions', sid, now') :
                  e.t = now' => (e.ret # None /\ e.ret[1].user_id = last'.n)
      ]_vars

\* a second session of a user was created while the first is still stored
C7_Witness ==
    /\ last.op = "create"
    /\ Cardinality(DOMAIN sessions) = 2
    /\ \A s \in DOMAIN sessions : sessions[s].user_id = last.n
    /\ sessions[last.sid].expires_at = now + session_timeout

C8_State ==
    (last.op = "destroy") =>
        /\ last.ok
        /\ last.sid \notin DOMAIN sessions
        /\ delete_session(sessions, last.sid) = sessions

C8_Step ==
    (last'.op = "destroy") =>
        /\ DOMAIN sessions' = DOMAIN sessions \ {last'.sid}
        /\ \A s \in DOMAIN sessions' : sessions'[s] = sessions[s]
        /\ (last'.sid \notin DOMAIN sessions => sessions' = sessions)

\* C8: destroy_session never fails; on an id that is not in the table it
\* leaves the table unchanged; on an id that is, it removes that record and
\* no other, and destroying again changes nothing.
C8_DestroyIdempotent == []C8_State /\ [][C8_Step]_vars

\* a destroy of an id that is not stored, with another session stored
C8_Witness ==
    /\ last.op = "destroy"
    /\ last.n = 0
    /\ last.ok
    /\ DOMAIN sessions # {}

C9_State ==
    (last.op = "set_data" /\ last.session = None) =>
        /\ last.ok
        /\ last.sid \notin DOMAIN sessions

C9_Step ==
    (last'.op = "set_data" /\ last'.session = None) => sessions' = sessions

\* C9: set_session_data on an id that is not in the table returns normally,
\* creates no record for it and leaves every stored session unchanged.
C9_SetDataOnMissingIsNoOp == []C9_State /\ [][C9_Step]_vars

\* a set_session_data on an id that is not stored, with another session stored
C9_Witness ==
    /\ last.op = "set_data"
    /\ last.session = None
    /\ last.ok
    /\ DOMAIN sessions # {}

\* C10: set_session_data on a session that is still in the table with
\* now > expires_at leaves the record's data as it was.
C10_SetDataOnExpiredIsNoOp ==
    (last.op = "set_data" /\ last.session # None
       /\ now > last.session[1].expires_at)
    => /\ last.sid \in DOMAIN sessions
       /\ sessions[last.sid].data = json_dumps(last.session[1].data)

\* the value that get_session_data(session_id, key) returns right after
\* set_session_data(session_id, key, value), from the current table
RoundTrip(session_id, key, value) ==
    get_session_data_value(
        set_session_data_store(sessions, session_id, key, value),
        session_id, key, NoneStr)

\* C11 as stated: for a stored session, whatever its data holds,
\* set_session_data(id, k, v) then get_session_data(id, k) returns exactly v
\* for every value v that json.dumps accepts.
C11_RoundTripAnyValue ==
    \A s \in DOMAIN sessions, k \in Keys, v \in DataValues :
        RoundTrip(s, k, v) = v

\* C11: for a stored session, whatever its data holds, set_session_data(id,
\* k, v) then get_session_data(id, k) returns exactly v for every value v
\* built from JSON's own types (str, number, bool, list, str-keyed dict);
\* a tuple comes back as the list of its items and a mapping with non-string
\* keys comes back with the keys as strings.
C11_RoundTripJsonTypes ==
    \A s \in DOMAIN sessions, k \in Keys :
        /\ \A v \in JsonTypeValues : RoundTrip(s, k, v) = v
        /\ RoundTrip(s, k, "py:(1,)") = "py:[1]"
        /\ RoundTrip(s, k, "py:{1: 'a'}") = "py:{'1': 'a'}"

\* get_session_data returned a stored value of a session whose data holds
\* two keys with different values
C11_Witness ==
    /\ last.op = "get_data"
    /\ last.session # None
    /\ last.val \in JsonTypeValues
    /\ DOMAIN sessions[last.sid].data = Keys
    /\ sessions[last.sid].data["k1"] # sessions[last.sid].data["k2"]

\* C12: cleanup_expired_sessions, reading the clock at time t, deletes
\* exactly the records with expires_at < t, returns how many it deleted and
\* leaves every record with expires_at >= t as it was.
C12_SweepDeletesExactlyExpired ==
    [][(last'.op = "sweep") =>
        LET t == last'.t IN
        /\ now <= t /\ t = now'
        /\ DOMAIN sessions' = {s \in DOMAIN sessions : sessions[s].expires_at >= t}
        /\ \A s \in DOMAIN sessions' : sessions'[s] = sessions[s]
        /\ last'.n = Cardinality({s \in DOMAIN sessions : sessions[s].expires_at < t})
        /\ last'.n = Cardinality(DOMAIN sessions) - Cardinality(DOMAIN sessions')
      ]_vars

\* a sweep deleted one session and kept one whose expires_at is the time of
\* the sweep
C12_Witness ==
    /\ last.op = "sweep"
    /\ last.n = 1
    /\ \E s \in DOMAIN sessions : sessions[s].expires_at = last.t

\* the calls that read a session: get_session, validate_session, the
\* middleware lookup, get_session_data
IsRead == last.op \in {"get", "validate", "request", "get_data"}

\* C13: a read of session id A leaves every session other than A as it was,
\* and get_session_data leaves A as it was too; a record leaves the table
\* only by a lookup of its own id or by destroy_session,
\* destroy_user_sessions or cleanup_expired_sessions.
C13_ReadsDoNotSweep ==
    [][/\ IsRead' =>
             \A s \in DOMAIN sessions \ {last'.sid} :
                 s \in DOMAIN sessions' /\ sessions'[s] = sessions[s]
       /\ (last'.op = "get_data") => sessions' = sessions
       /\ \A s \in DOMAIN sessions \ DOMAIN sessions' :
             \/ last'.op \in {"get", "validate", "request"} /\ last'.sid = s
             \/ last'.op \in {"destroy", "destroy_user", "sweep"}
      ]_vars

\* a lookup of one session was made while another session, already expired,
\* is in the table, and that one is still there
C13_Witness ==
    /\ last.op \in {"get", "validate", "request"}
    /\ last.session # None
    /\ \E s \in DOMAIN sessions \ {last.sid} : sessions[s].expires_at < now

\* the routes under @require_session
ProtectedRoutes == {"logout", "read", "track_page_view", "track_action",
                    "update_preferences", "delete_user_data", "record_consent"}

\* C14: a request on a protected route that presents no session id, an id
\* that is not in the table or the id of a session that is expired when the
\* middleware checks it is answered 401; a request answered 401 leaves the
\* activities, preferences and consent tables as they were, creates no
\* session and changes no session, except that the presented session is
\* deleted when it was expired.
C14_UnauthorizedRunsNoHandler ==
    [][(last'.op \in ProtectedRoutes) =>
        LET sid == last'.sid
            expired == sid \in DOMAIN sessions
                          /\ last'.t > sessions[sid].expires_at
        IN
        /\ (sid = "" \/ sid \notin DOMAIN sessions \/ expired) <=> (last'.n = 401)
        /\ (sid \in DOMAIN sessions /\ sessions[sid].expires_at < now)
              => last'.n = 401
        /\ (last'.n = 401) =>
              /\ activities' = activities
              /\ activity_seq' = activity_seq
              /\ preferences' = preferences
              /\ consent' = consent
              /\ issued' = issued
              /\ IF expired THEN sessions' = delete_session(sessions, sid)
                 ELSE sessions' = sessions
      ]_vars

\* a write to the preferences was refused with 401 for the session of the
\* one login, which is gone although nobody logged out or erased anything,
\* while the tables hold that user's records
C14_Witness ==
    /\ last.op = "update_preferences"
    /\ last.n = 401
    /\ last.sid \in issued
    /\ last.sid \notin DOMAIN sessions
    /\ Len(activities) = 1
    /\ activities[1].event_type = "login"
    /\ DOMAIN preferences # {}
    /\ DOMAIN consent # {}

\* the logout events in the log that carry session id s
LogoutEvents(s) ==
    {i \in DOMAIN activities :
        activities[i].event_type = "logout" /\ activities[i].session_id = s}

C15_State ==
    /\ \A s \in SessionIds : Cardinality(LogoutEvents(s)) <= 1
    /\ (last.op = "logout" /\ last.n = 200) =>
          /\ last.sid \notin DOMAIN sessions
          /\ Cardinality(LogoutEvents(last.sid)) = 1

C15_Step ==
    /\ (last'.op = "logout" /\ last'.n = 200) =>
          /\ last'.sid \in DOMAIN sessions
          /\ last'.sid \notin DOMAIN sessions'
          /\ Len(activities') = Len(activities) + 1
          /\ SubSeq(activities', 1, Len(activities)) = activities
          /\ activities'[Len(activities')].event_type = "logout"
          /\ activities'[Len(activities')].user_id = sessions[last'.sid].user_id
          /\ activities'[Len(activities')].session_id = last'.sid
    /\ (last'.op \in ProtectedRoutes /\ last'.sid \in issued \ DOMAIN sessions) =>
          /\ last'.n = 401
          /\ activities' = activities
    /\ \A s \in issued \ DOMAIN sessions : s \notin DOMAIN sessions'

\* C15: a logout answered 200 for session id S removes the record of S and
\* appends exactly one logout event with S's user id and session id; from
\* then on S is never in the table, every request on a protected route that
\* presents S, a second logout among them, is answered 401 and appends
\* nothing, and the log holds one logout event for S.
C15_LogoutDestroysSession == []C15_State /\ [][C15_Step]_vars

\* a second logout with the same id was answered 401
C15_Witness ==
    /\ last.op = "logout"
    /\ last.n = 401
    /\ Cardinality(LogoutEvents(last.sid)) = 1
    /\ Len(activities) = 2

\* C16: a login answered 200 is one whose username and password are a pair
\* of users_db; it creates one new session, under the returned id, for that
\* user's id, with expires_at = time of the call + timeout, appends one
\* login event with that user id and session id, and the middleware accepts
\* the returned id at the instant of the call.
C16_LoginCreatesSession ==
    [][(last'.op = "login" /\ last'.n = 200) =>
        LET sid == last'.sid
            ev == activities'[Len(activities')] IN
        /\ last'.val \in DOMAIN users_db
        /\ sid \notin issued /\ issued' = issued \cup {sid}
        /\ DOMAIN sessions' \ DOMAIN sessions = {sid}
        /\ sessions'[sid].user_id = users_db[last'.val].user_id
        /\ sessions'[sid].expires_at = last'.t + session_timeout
        /\ Len(activities') = Len(activities) + 1
        /\ SubSeq(activities', 1, Len(activities)) = activities
        /\ ev.event_type = "login"
        /\ ev.user_id = users_db[last'.val].user_id
        /\ ev.session_id = sid
        /\ (now' = last'.t) =>
              \A e \in before_request_handler(sessions', Some(sid), now') :
                  e.t = now' =>
                     /\ e.ret # None
                     /\ e.ret[1].user_id = users_db[last'.val].user_id
      ]_vars

\* user1 logged in and the session of user id 2 is stored
C16_Witness ==
    /\ last.op = "login"
    /\ last.n = 200
    /\ last.val = "user1"
    /\ last.sid \in DOMAIN sessions
    /\ sessions[last.sid].user_id = 2
    /\ activities[Len(activities)].session_id = last.sid

C18_WholeMappingOverwritten ==
    [][\A i \in ThreadIds :
          (threads[i].pc = "set_update" /\ threads'[i].pc = "idle") =>
              /\ last'.op = "set_data" /\ last'.ok
              /\ threads[i].sid \in DOMAIN sessions =>
                    sessions'[threads[i].sid].data
                       = json_dumps(threads[i].session[1].data)
      ]_vars

\* a lost update: a set_session_data call returned, and a key that an
\* earlier, completed call had stored is gone from the data, which holds
\* only this call's key
C18_Witness ==
    /\ last.op = "set_data"
    /\ last.session # None
    /\ last.sid \in DOMAIN sessions
    /\ Cardinality(DOMAIN sessions[last.sid].data) = 1
    /\ \E k \in DOMAIN last.session[1].data :
          k \notin DOMAIN sessions[last.sid].data

\* C19: a row of activities is never altered; it leaves the table only by
\* delete_old_activities (its timestamp before the cutoff) or by the erase
\* of its user; destroy_session, destroy_user_sessions, get_session (lazy
\* expiry), cleanup_expired_sessions and create_session leave the table as
\* it was, and logout only appends to it.
C19_ActivitiesAppendOnly ==
    [][/\ \A i \in DOMAIN activities :
             \/ \E j \in DOMAIN activities' : activities'[j] = activities[i]
             \/ /\ last'.op = "delete_old_activities"
                /\ activities[i].timestamp < last'.t
             \/ /\ last'.op = "erase"
                /\ activities[i].user_id = last'.n
       /\ \A j \in DOMAIN activities' :
             \/ \E i \in DOMAIN activities : activities[i] = activities'[j]
             \/ /\ activities'[j].id > activity_seq
                /\ j = Len(activities')
                /\ last'.op \in {"track", "logout"}
       /\ (last'.op \in {"destroy", "destroy_user", "get", "sweep", "create"})
             => activities' = activities
       /\ (last'.op \in {"track", "logout"})
             => SubSeq(activities', 1, Len(activities)) = activities
      ]_vars

\* a session was destroyed and an event that references its id is in the log
C19_Witness ==
    /\ last.op = "destroy"
    /\ last.n = 1
    /\ last.sid \notin DOMAIN sessions
    /\ \E i \in DOMAIN activities : activities[i].session_id = last.sid

\* C20: track_event returns normally and appends one row: the count of the
\* user's events and the count of the user's events of that type are one
\* greater than before, the counts of every other user are as before, for
\* every event type and whether or not session_id is a stored session.
C20_TrackAppendsOneEvent ==
    [][(last'.op = "track") =>
        LET u == last'.n IN
        /\ last'.ok
        /\ Len(activities') = Len(activities) + 1
        /\ get_activity_count(activities', u, NoneStr)
              = get_activity_count(activities, u, NoneStr) + 1
        /\ get_activity_count(activities', u, last'.val)
              = get_activity_count(activities, u, last'.val) + 1
        /\ \A v \in UserIds \ {u} : \A type \in EventTypes \cup {NoneStr} :
              get_activity_count(activities', v, type)
                 = get_activity_count(activities, v, type)
      ]_vars

\* an event with the empty event type and a session id that is not stored
\* was tracked while a session is stored and another user has an event
C20_Witness ==
    /\ last.op = "track"
    /\ last.val = ""
    /\ last.sid \notin DOMAIN sessions
    /\ DOMAIN sessions # {}
    /\ \E i \in DOMAIN activities : activities[i].user_id # last.n
    /\ get_activity_count(activities, last.n, "custom") = 0

\* the rows of user_id in each of the four tables
UserRows(S, A, P, C, user_id) ==
    [sessions |-> Cardinality({s \in DOMAIN S : S[s].user_id = user_id}),
     activities |-> Cardinality({i \in DOMAIN A : A[i].user_id = user_id}),
     preferences |-> Cardinality(DOMAIN P \cap {user_id}),
     consent |-> Cardinality({i \in DOMAIN C : C[i].user_id = user_id})]

\* C21: an erase of user u that returns leaves no row of u in the four
\* tables, returns for each table the number of rows of u it held (zeros
\* when u had none), and leaves every row of every other user as it was; a
\* session id that is out of the table never comes back, and
\* validate_session of an id that is not in the table returns False.
C21_EraseRemovesUserRows ==
    [][/\ (last'.op = "erase" /\ last'.ok) =>
            LET u == last'.n
                before == UserRows(sessions, activities, preferences, consent, u)
                after == UserRows(sessions', activities', preferences', consent', u)
                summary == last'.ret[1] IN
            /\ after = [sessions |-> 0, activities |-> 0, preferences |-> 0,
                         consent |-> 0]
            /\ summary.sessions_deleted = before.sessions
            /\ summary.activities_deleted = before.activities
            /\ summary.preferences_deleted = before.preferences
            /\ summary.consent_deleted = before.consent
            /\ \A s \in DOMAIN sessions :
                  sessions[s].user_id # u =>
                     s \in DOMAIN sessions' /\ sessions'[s] = sessions[s]
            /\ DOMAIN sessions' \subseteq DOMAIN sessions
            /\ activities' = SelectSeq(activities, LAMBDA r : r.user_id # u)
            /\ \A v \in DOMAIN preferences \ {u} :
                  v \in DOMAIN preferences' /\ preferences'[v] = preferences[v]
            /\ DOMAIN preferences' \subseteq DOMAIN preferences
            /\ consent' = SelectSeq(consent, LAMBDA r : r.user_id # u)
       /\ \A s \in issued \ DOMAIN sessions : s \notin DOMAIN sessions'
       /\ (last'.op = "validate" /\ last'.sid \notin DOMAIN sessions) => ~last'.ok
      ]_vars

\* an erase removed a row of every table while the other user has a row in
\* every table
C21_Witness ==
    /\ last.op = "erase"
    /\ last.ok
    /\ last.ret[1].sessions_deleted = 1
    /\ last.ret[1].activities_deleted = 1
    /\ last.ret[1].preferences_deleted = 1
    /\ last.ret[1].consent_deleted = 1
    /\ \E v \in UserIds \ {last.n} :
          UserRows(sessions, activities, preferences, consent, v)
             = [sessions |-> 1, activities |-> 1, preferences |-> 1, consent |-> 1]

\* an erase of a user without a row in any table returned four zeros
C21_WitnessNoRows ==
    /\ last.op = "erase"
    /\ last.ok
    /\ last.ret[1] = [sessions_deleted |-> 0, activities_deleted |-> 0,
                       preferences_deleted |-> 0, consent_deleted |-> 0]
    /\ Len(activities) > 0

\* the four tables before and after a step
DatabaseNow == Database(sessions, activities, preferences, consent)
DatabaseNext == Database(sessions', activities', preferences', consent')

NoRows == [sessions |-> 0, activities |-> 0, preferences |-> 0, consent |-> 0]

C23_RetentionOneCutoff ==
    [][(last'.op = "retention") =>
        \E t \in now..now' :
            LET cutoff == t - last'.n IN
            /\ activities' = SelectSeq(activities, LAMBDA r : ~(r.timestamp < cutoff))
            /\ DOMAIN sessions'
                  = {s \in DOMAIN sessions : ~(sessions[s].created_at < cutoff)}
            /\ \A s \in DOMAIN sessions' : sessions'[s] = sessions[s]
            /\ last'.ret[1].activities_deleted = Len(activities) - Len(activities')
            /\ last'.ret[1].sessions_deleted
                  = Cardinality(DOMAIN sessions) - Cardinality(DOMAIN sessions')
      ]_vars

\* C24 as stated: whatever was done before, get_preferences of a user
\* without a preferences row returns the default mapping that __init__ built.
C24_StaticDefaults ==
    \A user_id \in UserIds \ DOMAIN preferences :
        get_preferences_result(preferences, defaults, user_id) = DefaultPreferences

\* the calls that read preferences and the calls that write them
PreferenceReads == {"get_preferences", "get_preference", "get_privacy_settings",
                    "export"}
PreferenceWrites == {"set_preferences", "update_preference", "reset_preferences",
                     "set_profile_visibility", "set_activity_visibility",
                     "set_analytics_consent"}

\* C25: get_preferences, get_preference, get_privacy_settings and the GDPR
\* export leave the preferences table as it was, so a user without a row
\* has none after them; a row of a user appears only in a write for that
\* user, and every write for a user leaves a row of that user.
C25_ReadsDoNotPersist ==
    [][/\ (last'.op \in PreferenceReads) => preferences' = preferences
       /\ \A user_id \in DOMAIN preferences' \ DOMAIN preferences :
             last'.op \in PreferenceWrites /\ last'.n = user_id
       /\ (last'.op \in PreferenceWrites) => last'.n \in DOMAIN preferences'
      ]_vars

\* get_preferences returned the defaults to a user who has no row, while
\* the other user has one
C25_Witness ==
    /\ last.op = "get_preferences"
    /\ last.n \notin DOMAIN preferences
    /\ last.ret = Some(defaults)
    /\ DOMAIN preferences # {}

\* C26: export_user_data(u) returns normally; its preferences are the empty
\* mapping when u has no preferences row; its sessions, activities and
\* consent are exactly the rows of u in those tables, expired sessions that
\* are still stored among them; and it changes no table.
C26_ExportReturnsUserRows ==
    [][(last'.op = "export") =>
        LET u == last'.n
            e == last'.ret[1] IN
        /\ last'.ok
        /\ (u \notin DOMAIN preferences) => e.preferences = EmptyPreferences
        /\ (u \in DOMAIN preferences) =>
              json_dumps_preferences(e.preferences) = preferences[u]
        /\ DOMAIN e.sessions = {s \in DOMAIN sessions : sessions[s].user_id = u}
        /\ \A s \in DOMAIN e.sessions : e.sessions[s] = sessions[s]
        /\ e.activities = SelectSeq(activities, LAMBDA r : r.user_id = u)
        /\ e.consent = SelectSeq(consent, LAMBDA r : r.user_id = u)
        /\ UNCHANGED <<sessions, activities, activity_seq, preferences, consent>>
      ]_vars

\* an export for a user without a preferences row returned the user's
\* expired session, one of the two activities and one of the two consent
\* rows, while the other user has a preferences row
C26_Witness ==
    /\ last.op = "export"
    /\ last.n \notin DOMAIN preferences
    /\ DOMAIN preferences # {}
    /\ last.ret[1].preferences = EmptyPreferences
    /\ \E s \in DOMAIN last.ret[1].sessions : last.ret[1].sessions[s].expires_at < now
    /\ Len(last.ret[1].activities) = 1 /\ Len(activities) = 2
    /\ Len(last.ret[1].consent) = 1 /\ Len(consent) = 2

\* C27: after set_preferences(u, m) get_preferences(u) returns m, with the
\* keys of m and no other, whatever row u had before; u has a row, and the
\* rows of the other users are as they were.
C27_SetPreferencesOverwrites ==
    [][(last'.op = "set_preferences") =>
        LET u == last'.n
            m == last'.ret[1] IN
        /\ get_preferences_result(preferences', defaults', u) = m
        /\ DOMAIN get_preferences_result(preferences', defaults', u) = DOMAIN m
        /\ DOMAIN preferences' = DOMAIN preferences \cup {u}
        /\ \A v \in DOMAIN preferences \ {u} : preferences'[v] = preferences[v]
      ]_vars

\* the empty mapping was stored for user 1, whose earlier row held the
\* defaults with a privacy setting written into them, and is what user 1
\* reads now; user 2 has a row
C27_Witness ==
    /\ last.op = "set_preferences"
    /\ last.n = 1
    /\ last.ret = Some(EmptyPreferences)
    /\ get_preferences_result(preferences, defaults, 1) = EmptyPreferences
    /\ defaults["privacy"].sub["show_activity"] = "py:False"
    /\ 2 \in DOMAIN preferences

\* C28: after update_preference(u, k, v) get_preferences(u) has k with value
\* v and every other key of the mapping get_preferences(u) returned just
\* before the call (the defaults when u had no row), each with the value it
\* had; u has a row from then on and the rows of the other users are as
\* they were.
C28_UpdatePreferenceRewrites ==
    [][(last'.op = "update_preference") =>
        LET u == last'.n
            k == last'.val
            v == last'.ret[1]
            before == get_preferences_result(preferences, defaults, u)
            after == get_preferences_result(preferences', defaults', u) IN
        /\ DOMAIN after = DOMAIN before \cup {k}
        /\ after[k] = v
        /\ \A j \in DOMAIN before \ {k} : after[j] = before[j]
        /\ u \in DOMAIN preferences'
        /\ preferences'[u] = json_dumps_preferences(after)
        /\ \A w \in DOMAIN preferences \ {u} : preferences'[w] = preferences[w]
      ]_vars

\* update_preference set the theme of user 2, whose row holds the defaults
\* as a privacy setter of user 1 had left them
C28_Witness ==
    /\ last.op = "update_preference"
    /\ last.n = 2
    /\ 2 \in DOMAIN preferences
    /\ get_preferences_result(preferences, defaults, 2)
          = preferences_set(defaults, "theme", Leaf("py:'dark'"))
    /\ defaults["privacy"].sub["show_activity"] = "py:False"

\* the rows of the consent table for a (user_id, consent_type) pair
ConsentRows(C, user_id, consent_type) ==
    {i \in DOMAIN C : C[i].user_id = user_id /\ C[i].consent_type = consent_type}

C29_State ==
    \A user_id \in UserIds, consent_type \in ConsentTypes :
        Cardinality(ConsentRows(consent, user_id, consent_type)) <= 1

C29_Step ==
    /\ (last'.op = "record") =>
          /\ get_consent_result(consent', last'.n, last'.val) = last'.ret[1]
          /\ \A user_id \in UserIds, consent_type \in ConsentTypes :
                <<user_id, consent_type>> # <<last'.n, last'.val>> =>
                   {consent'[i] : i \in ConsentRows(consent', user_id, consent_type)}
                      = {consent[i] : i \in ConsentRows(consent, user_id, consent_type)}
    /\ (last'.op = "erase" /\ last'.ok) =>
          \A consent_type \in ConsentTypes :
              ~get_consent_result(consent', last'.n, consent_type)
    /\ (last'.op = "get_consent") =>
          /\ last'.ok = get_consent_result(consent, last'.n, last'.val)
          /\ consent' = consent
    /\ (last'.op = "tick") => consent' = consent

\* C29 as stated: the consent table never holds two rows for one
\* (user_id, consent_type); after record_consent(u, t, g) get_consent(u, t)
\* returns g, until the next record_consent(u, t, ...) or the erase of u,
\* after which it returns False; record_consent(u, t, ...) leaves the rows
\* of every other pair as they were.
C29_ConsentUpsert == []C29_State /\ [][C29_Step]_vars

\* the rows of the activities table a journey call selects from
JourneyMatches(A, user_id, session_id) ==
    IF session_id # NoneStr /\ session_id # ""
    THEN {i \in DOMAIN A : A[i].user_id = user_id /\ A[i].session_id = session_id}
    ELSE {i \in DOMAIN A : A[i].user_id = user_id}

JourneyAscending(journey) ==
    \A k \in DOMAIN journey :
        k < Len(journey) => journey[k].timestamp <= journey[k + 1].timestamp

\* C30: get_user_journey(user_id) without a session filter returns at most
\* 100 entries, each an event of that user, in ascending timestamp order;
\* get_user_journey(user_id, session_id) returns one entry for every event
\* whose user_id and session_id both match and no other entry, in ascending
\* timestamp order.
C30_Journey ==
    (last.op = "journey") =>
        LET journey == last.ret[1]
            matches == JourneyMatches(activities, last.n, last.sid)
            filtered == last.sid # NoneStr /\ last.sid # "" IN
        /\ JourneyAscending(journey)
        /\ \A k \in DOMAIN journey :
              \E i \in matches : journey[k] = journey_entry(activities[i])
        /\ ~filtered =>
              Len(journey) = IF Cardinality(matches) < JourneyLimit
                             THEN Cardinality(matches) ELSE JourneyLimit
        /\ filtered =>
              /\ Len(journey) = Cardinality(matches)
              /\ \A i \in matches :
                    \E k \in DOMAIN journey : journey[k] = journey_entry(activities[i])

\* a user with more than 100 events, stored next to another user's events
\* and in falling timestamp order, asks for the journey without a filter
C30_Witness ==
    /\ last.op = "journey"
    /\ last.sid = NoneStr
    /\ Len(last.ret[1]) = JourneyLimit
    /\ Cardinality(JourneyMatches(activities, last.n, NoneStr)) > JourneyLimit
    /\ \E i \in DOMAIN activities : activities[i].user_id # last.n
    /\ activities[1].timestamp > activities[Len(activities)].timestamp

\* a session's journey out of a table that also holds other sessions' and
\* another user's events
C30_WitnessSession ==
    /\ last.op = "journey"
    /\ last.sid \in SessionIds
    /\ Len(last.ret[1]) > 1
    /\ \E i \in DOMAIN activities :
          activities[i].user_id = last.n /\ activities[i].session_id # last.sid
    /\ \E i \in DOMAIN activities : activities[i].user_id # last.n
    /\ activities[1].timestamp > activities[Len(activities)].timestamp

\* C31: destroy_user_sessions(u) removes every session row whose user_id is
\* u and leaves every other row as it was; it returns normally also when u
\* has no session; afterwards a lookup of any id that was u's returns
\* not-found, whatever the clock shows.
C31_DestroyUserSessions ==
    [][(last'.op = "destroy_user") =>
        /\ last'.ok
        /\ DOMAIN sessions' =
              {s \in DOMAIN sessions : sessions[s].user_id # last'.n}
        /\ \A s \in DOMAIN sessions' : sessions'[s] = sessions[s]
        /\ \A s \in DOMAIN sessions :
              sessions[s].user_id = last'.n =>
                 \A e \in get_session_outcomes(sessions', s, now') : e.ret = None
        /\ UNCHANGED <<now, issued, other_tables>>]_vars

\* both users held a live session and one of them was signed out everywhere
C31_Witness ==
    /\ last.op = "destroy_user"
    /\ now = 0
    /\ Cardinality(issued) = 2
    /\ Cardinality(DOMAIN sessions) = 1
    /\ \A s \in DOMAIN sessions : sessions[s].user_id # last.n

\* a user without sessions was signed out everywhere
C31_WitnessNoSessions ==
    /\ last.op = "destroy_user"
    /\ issued = {}

\* C32: get_session_stats, reading the clock at t, reports as active_sessions
\* the number of stored session rows with expires_at > t, and changes no
\* stored data.
C32_ActiveCount ==
    [][(last'.op = "stats") =>
        /\ last'.n = Cardinality({s \in DOMAIN sessions :
                                    sessions[s].expires_at > last'.t})
        /\ last'.val = session_timeout
        /\ UNCHANGED <<sessions, session_timeout, issued, other_tables>>]_vars

\* two stored sessions, one counted and one whose expires_at is the clock
\* reading of the count
C32_Witness ==
    /\ last.op = "stats"
    /\ last.n = 1
    /\ \E s \in DOMAIN sessions : sessions[s].expires_at = last.t
    /\ \E s \in DOMAIN sessions : sessions[s].expires_at > last.t

\* the users with at least one event of a type
FunnelUsersOf(step) ==
    {u \in 1..MaxUsers :
        \E i \in DOMAIN activities :
            activities[i].user_id = u /\ activities[i].event_type = step}

\* C33: get_conversion_funnel(steps) reports for each step the number of
\* distinct users with an event of that type; the first step has no
\* conversion_rate, nor has a step whose preceding step has no users; every
\* other step has (users / users of the preceding step) * 100 with two
\* decimals: the hundredth nearest to the quotient, and 40.00% and 50.00%
\* for the counts 10, 4 and 2.
C33_Funnel ==
    (last.op = "funnel") =>
        LET funnel == last.ret[1]
            steps == last.val IN
        /\ Len(funnel) = Len(steps)
        /\ \A i \in DOMAIN funnel :
              LET users == Cardinality(FunnelUsersOf(steps[i]))
                  previous == IF i > 1 THEN Cardinality(FunnelUsersOf(steps[i - 1]))
                              ELSE 0 IN
              /\ funnel[i].step = steps[i]
              /\ funnel[i].users = users
              /\ ("conversion_rate" \in DOMAIN funnel[i]) <=> (i > 1 /\ previous > 0)
              /\ (i > 1 /\ previous > 0) =>
                    \E h \in {conversion_hundredths(users, previous)} :
                        /\ 2 * h * previous - 2 * 10000 * users <= previous
                        /\ 2 * 10000 * users - 2 * h * previous <= previous
                        /\ funnel[i].conversion_rate =
                              ToString(h \div 100) \o "." \o ToString((h % 100) \div 10)
                                \o ToString(h % 10) \o "%"
              /\ (i > 1 /\ previous = 10 /\ users = 4) =>
                    funnel[i].conversion_rate = "40.00%"
              /\ (i > 1 /\ previous = 4 /\ users = 2) =>
                    funnel[i].conversion_rate = "50.00%"
              /\ (i > 1 /\ previous = 3 /\ users = 2) =>
                    funnel[i].conversion_rate = "66.67%"
              /\ (i > 1 /\ previous = 2 /\ users = 3) =>
                    funnel[i].conversion_rate = "150.00%"

\* the funnel of the counts 10, 4, 2
C33_Witness ==
    /\ last.op = "funnel"
    /\ last.val = FunnelSteps
    /\ last.ret[1][1] = [step |-> FunnelSteps[1], users |-> 10]
    /\ last.ret[1][2].users = 4
    /\ last.ret[1][3].users = 2
    /\ last.ret[1][2].conversion_rate = "40.00%"
    /\ last.ret[1][3].conversion_rate = "50.00%"

\* a step after a step without users
C33_WitnessNoRate ==
    /\ last.op = "funnel"
    /\ Len(last.ret[1]) = 3
    /\ last.ret[1][2].users = 0
    /\ last.ret[1][3].users > 0
    /\ "conversion_rate" \notin DOMAIN last.ret[1][3]

\* the latest call was a lookup of session_id and answered not-found
LookupFailed(session_id) ==
    IsLookup /\ last.sid = session_id /\ ~LookupSucceeded

\* a failed lookup leaves no row for the id behind
C34_State == (IsLookup /\ ~LookupSucceeded) => last.sid \notin DOMAIN sessions

\* a row appears only by a create that returns its id; a lookup of an id
\* without a row fails; no call moves the expires_at of a stored row
C34_Step ==
    /\ \A s \in SessionIds :
          (s \notin DOMAIN sessions /\ s \in DOMAIN sessions') =>
             (last'.op = "create" /\ last'.sid = s /\ s \notin issued)
    /\ \A s \in SessionIds :
          (s \notin DOMAIN sessions
             /\ last'.op \in {"get", "validate", "request"} /\ last'.sid = s) =>
                IF last'.op = "validate" THEN ~last'.ok ELSE last'.ret = None
    /\ \A s \in DOMAIN sessions \cap DOMAIN sessions' :
          sessions'[s].expires_at = sessions[s].expires_at

\* C34: once a lookup of a session id has answered not-found, every later
\* lookup of that id answers not-found, whatever lookups, data reads and
\* writes, sweeps, tracking, destroys and erases come between, unless a
\* create returns the id in the meantime (a token once issued is not issued
\* again); no call revives a session or moves its expires_at.
C34_ValidityMonotone ==
    /\ []C34_State
    /\ [][C34_Step]_vars
    /\ \A s \in SessionIds :
          []((LookupFailed(s) /\ s \in issued) =>
                [](IsLookup /\ last.sid = s => ~LookupSucceeded))

\* a lookup of an id that was issued and whose row was already gone, made
\* after the clock moved
C34_Witness ==
    /\ IsLookup
    /\ last.sid \in issued
    /\ last.session = None
    /\ ~LookupSucceeded
    /\ now > 0
    /\ activities # <<>>

\* C35: no statement of a racing call puts back a row that a delete
\* removed: a session id without a row gets one only when create_session
\* returns that id, also when a thread that read the row before the delete
\* runs its UPDATE (of last_activity or of data) after it.
C35_NoResurrection ==
    [][\A s \in SessionIds :
          (s \notin DOMAIN sessions /\ s \in DOMAIN sessions') =>
             (last'.op = "create" /\ last'.sid = s /\ s \notin issued)]_vars

\* set_session_data wrote after another thread had removed the row it read,
\* and the store holds no row for the id
C35_Witness ==
    /\ last.op = "set_data"
    /\ last.session = None
    /\ last.sid \in issued
    /\ last.sid \notin DOMAIN sessions

\* a thread holds a row it read and is about to refresh last_activity, the
\* row being gone
C35_WitnessRefresh ==
    \E i \in ThreadIds :
        /\ threads[i].pc = "get_update"
        /\ threads[i].sid \notin DOMAIN sessions

\* the sessions table differs from the one before at most in the data of
\* session_id, and there at most in key
OnlyKeyWritten(session_id, key) ==
    /\ DOMAIN sessions' = DOMAIN sessions
    /\ \A s \in DOMAIN sessions :
          /\ s # session_id => sessions'[s] = sessions[s]
          /\ [sessions'[s] EXCEPT !.data = EmptyJson]
                = [sessions[s] EXCEPT !.data = EmptyJson]
          /\ DOMAIN sessions'[s].data \subseteq DOMAIN sessions[s].data \cup {key}
          /\ \A k \in DOMAIN sessions[s].data \ {key} :
                k \in DOMAIN sessions'[s].data
                  /\ sessions'[s].data[k] = sessions[s].data[k]

\* C36: get_session_data and set_session_data neither check the expiry nor
\* refresh the activity: no such call deletes a session or changes a
\* last_activity, expires_at or created_at; get_session_data changes
\* nothing; set_session_data(s, key, value) changes nothing but the data of
\* s, where key is added or replaced and every other key keeps its value.
C36_DataCallsBypass ==
    [][\A session_id \in SessionIds, key \in Keys :
          /\ (\E value \in PyValues : set_session_data(session_id, key, value)) =>
                /\ OnlyKeyWritten(session_id, key)
                /\ session_id \in DOMAIN sessions =>
                      key \in DOMAIN sessions'[session_id].data
                /\ UNCHANGED <<now, session_timeout, issued, other_tables>>
          /\ get_session_data(session_id, key, NoneStr) =>
                UNCHANGED <<sessions, now, session_timeout, issued, other_tables>>]_vars

\* set_session_data wrote a second key into an expired session that is
\* still stored, next to another session
C36_Witness ==
    /\ last.op = "set_data"
    /\ last.session # None
    /\ now > last.session[1].expires_at
    /\ last.sid \in DOMAIN sessions
    /\ DOMAIN sessions[last.sid].data = Keys
    /\ DOMAIN last.session[1].data # Keys
    /\ Cardinality(DOMAIN sessions) = 2

\* get_session_data read an expired session that is still stored
C36_WitnessRead ==
    /\ last.op = "get_data"
    /\ last.session # None
    /\ now > last.session[1].expires_at
    /\ last.sid \in DOMAIN sessions

\* C37: the record a successful get_session returns (and the middleware
\* puts in g.session and GET /api/session answers with) carries the
\* last_activity stored before the refresh of this call.  That stored value
\* is the clock reading of the refresh of the previous successful lookup,
\* or created_at when there was none: create stores last_activity =
\* created_at, a successful lookup stores the clock reading of its refresh,
\* and no other call writes last_activity.
C37_ReturnedRecordIsStale ==
    [][/\ (last'.op \in {"get", "request"} /\ last'.ret # None) =>
            /\ last'.sid \in DOMAIN sessions
            /\ last'.ret[1].last_activity = sessions[last'.sid].last_activity
            /\ last'.ret = store_get_session(sessions, last'.sid)
            /\ sessions'[last'.sid].last_activity = now'
       /\ (last'.op = "create") =>
            sessions'[last'.sid].last_activity = sessions'[last'.sid].created_at
       /\ \A s \in DOMAIN sessions \cap DOMAIN sessions' :
            sessions'[s].last_activity # sessions[s].last_activity =>
               (last'.op \in {"get", "request"} /\ last'.sid = s /\ last'.ret # None)]_vars

\* GET /api/session answered with a last_activity older than the one the
\* request stored
C37_Witness ==
    /\ last.op = "request"
    /\ last.n = 200
    /\ last.ret[1].last_activity < sessions[last.sid].last_activity

\* a lookup returned the time of the previous lookup, not created_at
C37_WitnessPrevious ==
    /\ last.op \in {"get", "request"}
    /\ last.ret # None
    /\ last.ret[1].last_activity > last.ret[1].created_at

\* the rows of user_id in the four tables
StoredRows(S, A, P, C, user_id) ==
    [sessions |-> [s \in {x \in DOMAIN S : S[x].user_id = user_id} |-> S[s]],
     activities |-> SelectSeq(A, LAMBDA r : r.user_id = user_id),
     preferences |-> [u \in DOMAIN P \cap {user_id} |-> P[u]],
     consent |-> SelectSeq(C, LAMBDA r : r.user_id = user_id)]

\* the routes under @require_session called in IsolationSpec
IsolationRoutes ==
    {"logout", "track_page_view", "update_preferences", "record_consent",
     "delete_user_data", "export_user_data", "get_preferences",
     "get_user_journey"}

\* C38: a request on a protected route that is let through was made with
\* a stored session; with A the user_id of that session, the request leaves
\* every row of every other user in the four tables as it was, what it
\* writes or deletes are rows of A, and what it answers is what the query
\* for A gives on the tables with every other user's rows taken out.
C38_RequestsActOnSessionUser ==
    [][(last'.op \in IsolationRoutes /\ last'.n = 200) =>
        /\ last'.sid \in DOMAIN sessions
        /\ LET user_id == sessions[last'.sid].user_id
               mine == StoredRows(sessions, activities, preferences, consent, user_id)
               mine_after == StoredRows(sessions', activities', preferences',
                                        consent', user_id) IN
           /\ \A other \in UserIds \ {user_id} :
                 StoredRows(sessions', activities', preferences', consent', other)
                   = StoredRows(sessions, activities, preferences, consent, other)
           /\ defaults' = defaults
           /\ (last'.op = "logout") =>
                 /\ last'.sid \notin DOMAIN sessions'
                 /\ Len(mine_after.activities) = Len(mine.activities) + 1
           /\ (last'.op = "track_page_view") =>
                 /\ Len(mine_after.activities) = Len(mine.activities) + 1
                 /\ activities'[Len(activities')].session_id = last'.sid
           /\ (last'.op = "update_preferences") => user_id \in DOMAIN preferences'
           /\ (last'.op = "record_consent") =>
                 \E i \in DOMAIN consent' :
                     consent'[i].user_id = user_id /\ consent'[i].timestamp = now'
           /\ (last'.op = "delete_user_data") =>
                 /\ mine_after.sessions = [s \in {} |-> 0]
                 /\ mine_after.activities = <<>>
                 /\ mine_after.preferences = [u \in {} |-> 0]
                 /\ mine_after.consent = <<>>
           /\ (last'.op = "export_user_data") =>
                 last'.ret[1] = export_data(mine_after.sessions, mine.activities,
                                            mine.preferences, mine.consent, user_id)
           /\ (last'.op = "get_preferences") =>
                 last'.ret[1] = get_preferences_result(mine.preferences, defaults,
                                                       user_id)
           /\ (last'.op = "get_user_journey") =>
                 \E by_id \in BOOLEAN :
                     last'.ret[1] = get_user_journey_result(mine.activities, user_id,
                                                            last'.sid, by_id)]_vars

\* a user erased their data with their own session while the other user
\* holds a session, events, preferences and consent
C38_Witness ==
    /\ last.op = "delete_user_data"
    /\ last.n = 200
    /\ Cardinality(DOMAIN sessions) = 1
    /\ \E other \in UserIds :
          /\ \A s \in DOMAIN sessions : sessions[s].user_id = other
          /\ other \in DOMAIN preferences
          /\ \E i \in DOMAIN consent : consent[i].user_id = other
          /\ \E i \in DOMAIN activities : activities[i].user_id = other

\* a user exported their data while the other user has rows in every table
C38_WitnessExport ==
    /\ last.op = "export_user_data"
    /\ last.n = 200
    /\ Cardinality(DOMAIN sessions) = 2
    /\ Cardinality(DOMAIN preferences) = 2
    /\ Len(consent) = 2
    /\ Len(last.ret[1].activities) = 1

----------------------------------------------------------------------------
(* Cookie before header *)

\* C39: a request that carries a non-empty session_id cookie looks up the
\* cookie's id and no other: it is answered 401 when that id is missing or
\* expired at the clock reading of the check, whatever the X-Session-ID
\* header names, and every other row of sessions, the one the header names
\* included, is neither refreshed nor deleted.  The header's id is looked
\* up only when the cookie is absent or empty; with neither, nothing is
\* looked up and the answer is 401
C39_CookieBeforeHeader ==
    [][\A cookie \in HeaderValues, header \in HeaderValues :
         request_with_cookie_and_header(cookie, header) =>
           LET used == IF cookie # None /\ cookie[1] # "" THEN cookie ELSE header
               looked == IF used # None /\ used[1] # "" THEN {used[1]} ELSE {} IN
           /\ last'.op = "request"
           /\ last'.sid = (IF looked = {} THEN "" ELSE used[1])
           /\ \A s \in DOMAIN sessions \ looked :
                 s \in DOMAIN sessions' /\ sessions'[s] = sessions[s]
           /\ DOMAIN sessions' \subseteq DOMAIN sessions
           /\ looked = {} => (last'.n = 401 /\ sessions' = sessions)
           /\ \A s \in looked :
                 /\ (s \notin DOMAIN sessions \/ is_expired(sessions[s], last'.t))
                       <=> last'.n = 401
                 /\ last'.n = 401 => s \notin DOMAIN sessions'
                 /\ last'.n = 200 =>
                       /\ s \in DOMAIN sessions'
                       /\ sessions'[s] = [sessions[s] EXCEPT !.last_activity = now']
                       /\ last'.ret = store_get_session(sessions, s)]_vars

\* the cookie names a session that is not stored, the header one that is
\* stored and not expired: 401, and the header's session was not refreshed
C39_Witness ==
    /\ last.op = "request"
    /\ last.n = 401
    /\ last.sid # ""
    /\ last.session = None
    /\ last.val # last.sid
    /\ last.val \in DOMAIN sessions
    /\ ~is_expired(sessions[last.val], now)
    /\ sessions[last.val].last_activity < now

\* the cookie names an expired session, which the request deletes; the
\* header names a live one, which stays stored with the last_activity of
\* its creation
C39_WitnessExpired ==
    /\ last.op = "request"
    /\ last.n = 401
    /\ last.session # None
    /\ last.sid \notin DOMAIN sessions
    /\ last.val # last.sid
    /\ last.val \in DOMAIN sessions
    /\ ~is_expired(sessions[last.val], now)
    /\ sessions[last.val].last_activity = sessions[last.val].created_at

\* the cookie empty, the header's session looked up and refreshed
C39_WitnessHeader ==
    /\ last.op = "request"
    /\ last.n = 200
    /\ last.val = last.sid

----------------------------------------------------------------------------
(* Lazy expiry and the sweep *)

\* at the clock reading t the sweep deletes the stored session s
Swept(S, s, t) == s \notin DOMAIN delete_expired_sessions(S, t)

\* on every table reached and at every clock reading t, the sweep deletes a
\* session exactly when is_expired holds of it, exactly when a get_session
\* whose check reads t returns None; a session with expires_at = t is kept
\* by the sweep and returned by get_session
C40_State ==
    \A t \in 0..MaxTime, s \in DOMAIN sessions :
        /\ Swept(sessions, s, t) <=> is_expired(sessions[s], t)
        /\ \A e \in get_session_outcomes(sessions, s, t) :
              e.t = t => /\ Swept(sessions, s, t) <=> e.ret = None
                         /\ Swept(sessions, s, t) <=> s \notin DOMAIN e.store
        /\ (\E e \in get_session_outcomes(sessions, s, t) : e.t = t)
        /\ sessions[s].expires_at = t => ~Swept(sessions, s, t)
        /\ \A x \in DOMAIN delete_expired_sessions(sessions, t) :
              delete_expired_sessions(sessions, t)[x] = sessions[x]

\* a sweep that ran deleted exactly the sessions its clock reading makes
\* expired for get_session; a get_session that found a row treated it as
\* expired exactly when a sweep at its clock reading would have deleted it
C40_Step ==
    /\ last'.op = "sweep" =>
          /\ \A s \in DOMAIN sessions :
                s \notin DOMAIN sessions' <=> is_expired(sessions[s], last'.t)
          /\ DOMAIN sessions' \subseteq DOMAIN sessions
          /\ \A s \in DOMAIN sessions' : sessions'[s].expires_at >= last'.t
    /\ (last'.op = "get" /\ last'.session # None) =>
          (last'.ret = None <=> Swept(sessions, last'.sid, last'.t))

\* C40: get_session and sweep_expired agree on what is expired at one clock
\* reading: the sweep deletes a session if and only if a get_session whose
\* check reads the same clock value treats it as expired, and a session whose
\* expires_at equals that value is kept by both
C40_LazyAndSweepAgree ==
    []C40_State /\ [][C40_Step]_vars

\* a sweep deleted an expired session and kept one whose expires_at equals
\* the clock value the sweep read
C40_Witness ==
    /\ last.op = "sweep"
    /\ last.n >= 1
    /\ \E s \in DOMAIN sessions : sessions[s].expires_at = last.t

\* get_session returned a session whose expires_at equals the clock value
\* of its check
C40_WitnessGet ==
    /\ last.op = "get"
    /\ last.ret # None
    /\ last.ret[1].expires_at = last.t

====
